---- MODULE Spec2Model ----
(***************************************************************************)
(* vivibin: the write-side layout engine of src/src/lib.rs.                *)
(*                                                                         *)
(* A WriteCtxImpl owns a default heap and an IndexMap from category to     *)
(* heap.  allocate_next_block moves the selected heap out of its owner     *)
(* into an InnerWriteCtx, advances it to a new block, runs the client's    *)
(* callback against the inner context and, when the inner context is       *)
(* dropped, moves the heap back.  to_buffer concatenates the blocks of all *)
(* heaps in category order and patches the relocations recorded by         *)
(* write_token through the driver's apply_reference (src/src/main.rs).     *)
(*                                                                         *)
(* Indices follow the source: block ids, heap ids and byte offsets count   *)
(* from 0; TLA+ sequences count from 1, so block b is blocks[b + 1].       *)
(***************************************************************************)
EXTENDS Integers, Sequences, FiniteSets, TLC

\* ------------------------------------------------------------------ bounds
\* nesting depth of inner contexts
MaxDepth == 2
\* write_all, write_token, heap_token_at_current_pos and allocate_next_block
\* calls the client makes in one run of Spec
MaxOps == 4
\* the same in one run of SpecAssemble
MaxAsmOps == 5
\* the same in one run of SpecOrder
MaxOrderOps == 3

\* ------------------------------------------------------ program constants
\* the heap categories of the format (its HeapCategory type), ordered by <
AllCats == {0, 1, 2}
\* the categories the client of Spec and SpecAssemble selects
Cats == {0, 1}
\* C::default()
DefaultCat == 1
\* write_token::<4>: the placeholder width every caller in main.rs uses
BYTE_SIZE == 4
\* the data byte the client writes
DataBytes == {7}
\* the data bytes the client of SpecOrder writes
OrderBytes == {7, 8}
\* the alignments the client asks for
Alignments == {2}
\* Option<Cat>: None is <<>>, Some(c) is <<c>>
OptCats == {<<>>} \cup {<<c>> : c \in Cats}

Max(a, b) == IF a >= b THEN a ELSE b

Zeroes(n) == [i \in 1..n |-> 0]

\* --------------------------------------------------- Cursor<Vec<u8>> (std)
\* WriteCtxWriter::default()
NewWriter == [inner |-> <<>>, pos |-> 0]

\* Cursor::write_all: overwrite at pos, extending the vector when needed
write_all(w, bytes) ==
    LET n == Len(w.inner)
        m == Len(bytes)
        p == w.pos
    IN  [inner |-> [i \in 1..Max(n, p + m) |->
                        IF i > p /\ i <= p + m THEN bytes[i - p]
                        ELSE IF i <= n THEN w.inner[i] ELSE 0],
         pos |-> p + m]

\* Writer::position
position(w) == w.pos

\* Writer::set_position
set_position(w, p) == [w EXCEPT !.pos = p]

\* ------------------------------------------------------------- align_to
\* ((alignment - pos) % alignment + alignment) % alignment; Rust's % on
\* isize truncates toward zero, so it is spelled out for a negative operand
RustRem(a, b) == IF a >= 0 THEN a % b ELSE 0 - ((0 - a) % b)

padding_size(alignment, pos) ==
    RustRem(RustRem(alignment - pos, alignment) + alignment, alignment)

\* const ZEROES: &[u8] = &[0; 128]
ZEROES == [i \in 1..128 |-> 0]

\* &ZEROES[..padding_size] is a slice past the end of ZEROES: the index
\* panics
align_to_panics(w, alignment) ==
    /\ alignment # 0
    /\ padding_size(alignment, position(w)) > Len(ZEROES)

\* the writer after align_to returned Ok(()); it returns nothing when
\* align_to_panics
align_to(w, alignment) ==
    IF alignment = 0 THEN w
    ELSE write_all(w, SubSeq(ZEROES, 1, padding_size(alignment, position(w))))

\* ------------------------------------------------- HeapBlock / WriteHeap
\* HeapBlock::new
NewHeapBlock == [relocations |-> <<>>, writer |-> NewWriter]

\* WriteHeap::new
NewWriteHeap == [current_block |-> 0, blocks |-> <<NewHeapBlock>>]

\* WriteHeap::cur_writer
cur_writer(h) == h.blocks[h.current_block + 1].writer

\* the heap with its current block's writer replaced (a write through
\* the &mut W that cur_writer returns)
with_cur_writer(h, w) == [h EXCEPT !.blocks[h.current_block + 1].writer = w]

\* (mutation) the relocation is recorded after the placeholder is written
write_token_placeholder_first(h, token) ==
    LET b == h.current_block + 1
        written == with_cur_writer(h, write_all(cur_writer(h), Zeroes(BYTE_SIZE)))
    IN  [written EXCEPT !.blocks[b].relocations =
            Append(@, <<position(written.blocks[b].writer), token>>)]

\* WriteHeap::write_token::<BYTE_SIZE>
write_token(h, token) ==
    LET b == h.current_block + 1
        pushed == [h EXCEPT !.blocks[b].relocations =
                       Append(@, <<position(h.blocks[b].writer), token>>)]
    IN  with_cur_writer(pushed, write_all(cur_writer(pushed), Zeroes(BYTE_SIZE)))

\* WriteHeap::align_to
heap_align_to(h, alignment) == with_cur_writer(h, align_to(cur_writer(h), alignment))

\* (mutation) the token names the start of the current block instead of the
\* writer's position
token_at_block_start(h, heap_id) ==
    [heap_id |-> heap_id, block_id |-> h.current_block, offset |-> 0]

\* WriteHeap::heap_token_at_current_pos_inner
heap_token_at_current_pos_inner(h, heap_id) ==
    [heap_id |-> heap_id, block_id |-> h.current_block,
     offset |-> position(cur_writer(h))]

\* (mutation) re-entering an existing block replaces it with a new one
seek_heap_replacing(h, alignment) ==
    IF h.current_block = Len(h.blocks) - 1
    THEN [current_block |-> Len(h.blocks),
          blocks |-> Append(h.blocks, NewHeapBlock)]
    ELSE [current_block |-> h.current_block + 1,
          blocks |-> [h.blocks EXCEPT ![h.current_block + 2] = NewHeapBlock]]

\* (mutation) a block that is re-entered is not padded
seek_heap_unaligned(h, alignment) ==
    IF h.current_block = Len(h.blocks) - 1
    THEN [current_block |-> Len(h.blocks),
          blocks |-> Append(h.blocks, NewHeapBlock)]
    ELSE [h EXCEPT !.current_block = @ + 1]

\* the heap after the two branches of seek_to_new_block
seek_heap(h, alignment) ==
    IF h.current_block = Len(h.blocks) - 1
    THEN [current_block |-> Len(h.blocks),
          blocks |-> Append(h.blocks, NewHeapBlock)]
    ELSE heap_align_to([h EXCEPT !.current_block = @ + 1], alignment)

\* (mutation) the token is minted before the heap moves to the block
seek_to_new_block_token_first(h, alignment, heap_id) ==
    [heap |-> seek_heap(h, alignment),
     token |-> heap_token_at_current_pos_inner(h, heap_id)]

\* WriteHeap::seek_to_new_block: the heap and the token it returns
seek_to_new_block(h, alignment, heap_id) ==
    LET h2 == seek_heap(h, alignment)
    IN  [heap |-> h2, token |-> heap_token_at_current_pos_inner(h2, heap_id)]

\* ------------------------------------------------------ IndexMap (indexmap)
\* an IndexMap is the sequence of its entries in index order

\* IndexMap::get_index_of, counted from 1; 0 when the key is absent
index_of(m, k) ==
    IF \E i \in 1..Len(m) : m[i].key = k
    THEN CHOOSE i \in 1..Len(m) : m[i].key = k
    ELSE 0

\* IndexMap::entry(k).or_default(): an absent key is appended
entry_or_default(m, k) ==
    IF index_of(m, k) = 0 THEN Append(m, [key |-> k, value |-> NewWriteHeap]) ELSE m

\* IndexMap::insert: a present key keeps its index and gets the new value
map_insert(m, k, v) ==
    IF index_of(m, k) = 0 THEN Append(m, [key |-> k, value |-> v])
    ELSE [m EXCEPT ![index_of(m, k)].value = v]

\* IndexMap::remove, which is swap_remove: the last entry takes the place
\* of the removed one
map_remove(m, k) ==
    LET i == index_of(m, k)
        n == Len(m)
    IN  IF i = 0 THEN m
        ELSE [j \in 1..(n - 1) |-> IF j = i THEN m[n] ELSE m[j]]

\* ------------------------------------------------------------ WriteCtxImpl
\* A context tree W is [default_heap, heaps, inner]: the WriteCtxImpl's two
\* fields and the chain of live InnerWriteCtx values, inner[k].ctx being
\* inner[k - 1] (the WriteCtxImpl itself for k = 1).  Level 0 is the
\* WriteCtxImpl, level k > 0 is inner[k].

\* Option::unwrap_or_default
unwrap_or_default(category) == IF category = <<>> THEN DefaultCat ELSE category[1]

\* WriteCtxImpl::heap_id_of: the context after the call and the id
heap_id_of(W, category) ==
    LET m == entry_or_default(W.heaps, category)
    IN  [w |-> [W EXCEPT !.heaps = m], id |-> index_of(m, category) - 1]

\* WriteCtxImpl::set_heap
set_heap(W, category, heap) ==
    IF category = DefaultCat
    THEN [W EXCEPT !.default_heap = heap]
    ELSE [W EXCEPT !.heaps = map_insert(@, category, heap)]

\* (mutation) remove_heap leaves a heap without blocks behind
remove_heap_leaving_no_block(W, category) ==
    LET empty == [current_block |-> 0, blocks |-> <<>>]
    IN  IF category = DefaultCat
        THEN [w |-> [W EXCEPT !.default_heap = empty], heap |-> W.default_heap]
        ELSE [w |-> [W EXCEPT !.heaps = map_insert(@, category, empty)],
              heap |-> IF index_of(W.heaps, category) = 0 THEN NewWriteHeap
                       ELSE W.heaps[index_of(W.heaps, category)].value]

\* WriteCtxImpl::remove_heap: the context after the call and the heap
remove_heap(W, category) ==
    IF category = DefaultCat
    THEN [w |-> [W EXCEPT !.default_heap = NewWriteHeap], heap |-> W.default_heap]
    ELSE [w |-> [W EXCEPT !.heaps = map_remove(@, category)],
          heap |-> IF index_of(W.heaps, category) = 0 THEN NewWriteHeap
                   ELSE W.heaps[index_of(W.heaps, category)].value]

\* WriteCtxImpl::heap: <<>> is None, <<h>> is Some(h)
heap(W, category) ==
    IF category = DefaultCat THEN <<W.default_heap>>
    ELSE IF index_of(W.heaps, category) = 0 THEN <<>>
    ELSE <<W.heaps[index_of(W.heaps, category)].value>>

\* WriteCtxImpl::heap_mut: the context after the lookup (an absent category
\* gets an entry) and the place of the heap the reference points to
heap_mut(W, category) ==
    IF category = DefaultCat
    THEN [w |-> W, at |-> <<"default_heap">>]
    ELSE LET m == entry_or_default(W.heaps, category)
         IN  [w |-> [W EXCEPT !.heaps = m], at |-> <<"heaps", index_of(m, category)>>]

\* ------------------------------------------------------------ InnerWriteCtx
RECURSIVE inner_heap_id_of(_, _, _)
RECURSIVE inner_set_heap(_, _, _, _)
RECURSIVE inner_remove_heap(_, _, _)
RECURSIVE inner_heap(_, _, _)
RECURSIVE inner_heap_mut(_, _, _)

\* InnerWriteCtx::heap_id_of at level k: self.ctx.heap_id_of(category)
inner_heap_id_of(W, k, category) ==
    IF k = 0 THEN heap_id_of(W, category)
    ELSE inner_heap_id_of(W, k - 1, category)

\* (mutation) an inner context hands out its own heap for every category
inner_remove_heap_own(W, k, category) ==
    IF k = 0 THEN remove_heap(W, category)
    ELSE [w |-> [W EXCEPT !.inner[k].default_heap = NewWriteHeap],
          heap |-> W.inner[k].default_heap]

\* InnerWriteCtx::set_heap at level k
inner_set_heap(W, k, category, h) ==
    IF k = 0 THEN set_heap(W, category, h)
    ELSE IF category = W.inner[k].default_category
         THEN [W EXCEPT !.inner[k].default_heap = h]
         ELSE inner_set_heap(W, k - 1, category, h)

\* InnerWriteCtx::remove_heap at level k
inner_remove_heap(W, k, category) ==
    IF k = 0 THEN remove_heap(W, category)
    ELSE IF category = W.inner[k].default_category
         THEN [w |-> [W EXCEPT !.inner[k].default_heap = NewWriteHeap],
               heap |-> W.inner[k].default_heap]
         ELSE inner_remove_heap(W, k - 1, category)

\* InnerWriteCtx::heap at level k
inner_heap(W, k, category) ==
    IF k = 0 THEN heap(W, category)
    ELSE IF category = W.inner[k].default_category
         THEN <<W.inner[k].default_heap>>
         ELSE inner_heap(W, k - 1, category)

\* InnerWriteCtx::heap_mut at level k
inner_heap_mut(W, k, category) ==
    IF k = 0 THEN heap_mut(W, category)
    ELSE IF category = W.inner[k].default_category
         THEN [w |-> W, at |-> <<"inner", k>>]
         ELSE inner_heap_mut(W, k - 1, category)

\* the heap a place names, and the context with the heap at a place replaced
\* (reads and writes through the &mut WriteHeap of heap_mut and deref_mut)
heap_at(W, at) ==
    IF at[1] = "default_heap" THEN W.default_heap
    ELSE IF at[1] = "heaps" THEN W.heaps[at[2]].value
    ELSE W.inner[at[2]].default_heap

with_heap_at(W, at, h) ==
    IF at[1] = "default_heap" THEN [W EXCEPT !.default_heap = h]
    ELSE IF at[1] = "heaps" THEN [W EXCEPT !.heaps[at[2]].value = h]
    ELSE [W EXCEPT !.inner[at[2]].default_heap = h]

\* Deref / DerefMut of a context: the place of its own heap
deref_mut(W, k) == IF k = 0 THEN <<"default_heap">> ELSE <<"inner", k>>

\* the category of a context's own heap
own_category(W, k) == IF k = 0 THEN DefaultCat ELSE W.inner[k].default_category

\* InnerWriteCtx::new(ctx, default_category) on the context at level k:
\* the heap is moved out of the parent into the new innermost context
inner_new(W, k, default_category) ==
    LET r == inner_remove_heap(W, k, default_category)
    IN  [r.w EXCEPT !.inner = Append(@, [default_category |-> default_category,
                                         default_heap |-> r.heap])]

\* (mutation) the inner context is gone without handing its heap back
drop_without_set_heap(W) ==
    [W EXCEPT !.inner = SubSeq(@, 1, Len(@) - 1)]

\* Drop for InnerWriteCtx: the innermost context hands its heap back to
\* its parent with set_heap and is gone
drop(W) ==
    LET k == Len(W.inner)
        f == W.inner[k]
        popped == [W EXCEPT !.inner = SubSeq(@, 1, k - 1)]
    IN  inner_set_heap(popped, k - 1, f.default_category, f.default_heap)

\* allocate_next_block_aligned up to the call of the callback, on the
\* innermost context (WriteCtxImpl at level 0, InnerWriteCtx above): the
\* context with the new inner context pushed, and the locals
\* prev_current_block and new_block_token
allocate_enter(W, category, alignment) ==
    LET k == Len(W.inner)
        cat == unwrap_or_default(category)
        r == IF k = 0 THEN heap_id_of(W, cat) ELSE inner_heap_id_of(W, k - 1, cat)
        w2 == inner_new(r.w, k, cat)
        prev == w2.inner[k + 1].default_heap.current_block
        s == seek_to_new_block(w2.inner[k + 1].default_heap, alignment, r.id)
    IN  [w |-> [w2 EXCEPT !.inner[k + 1].default_heap = s.heap],
         prev_current_block |-> prev,
         new_block_token |-> s.token]

\* (mutation) the Ok path leaves current_block where the callback left it
allocate_exit_ok_without_restore(W, prev_current_block) == drop(W)

\* allocate_next_block_aligned after the callback returned Ok: current_block
\* is put back, then the inner context is dropped
allocate_exit_ok(W, prev_current_block) ==
    drop([W EXCEPT !.inner[Len(W.inner)].default_heap.current_block = prev_current_block])

\* allocate_next_block_aligned after the callback returned Err: the ?
\* returns at once and only the drop runs
allocate_exit_err(W, prev_current_block) == drop(W)

\* ------------------------------------------------ the driver (src/src/main.rs)
\* A u32 is held as its four little-endian bytes, so that its arithmetic
\* keeps the width of the type.

\* u32::to_le_bytes of value as u32 (Endianness::Little, the only value
\* FormatCgfx reports)
to_le_bytes(v) == [i \in 1..4 |-> (v \div (256 ^ (i - 1))) % 256]

\* the number held in the low n bytes of a u32
low_bytes(a, n) ==
    IF n = 0 THEN 0
    ELSE IF n = 1 THEN a[1]
    ELSE IF n = 2 THEN a[1] + 256 * a[2]
    ELSE a[1] + 256 * a[2] + 65536 * a[3]

\* a - b on u32 as the release build computes it (wrapping)
u32_sub(a, b) ==
    [i \in 1..4 |->
        (a[i] - b[i] - (IF low_bytes(a, i - 1) < low_bytes(b, i - 1) THEN 1 ELSE 0)
           + 256) % 256]

\* u32::from_le_bytes of the four bytes at offset p of a byte vector
from_le_bytes(bytes, p) ==
    bytes[p + 1] + 256 * bytes[p + 2] + 65536 * bytes[p + 3] + 16777216 * bytes[p + 4]

\* impl From<usize> for Pointer: value as u32
pointer_from(value) == to_le_bytes(value)

\* (mutation) the target is stored as it is, not relative to the field
write_absolute_ptr(writer, value) ==
    write_all(writer, value)

\* FormatCgfx::write_relative_ptr: value.value() - writer.position() as u32,
\* written by u32::to_writer_simple
write_relative_ptr(writer, value) ==
    write_all(writer, u32_sub(value, to_le_bytes(position(writer))))

\* FormatCgfx::apply_reference
apply_reference(writer, heap_offset) ==
    write_relative_ptr(writer, pointer_from(heap_offset))

\* FormatCgfx::read_relative_ptr on a byte vector at position pos
read_relative_ptr(bytes, pos) ==
    LET raw_ptr == from_le_bytes(bytes, pos)
    IN  IF raw_ptr # 0 THEN pos + raw_ptr ELSE 0

\* ---------------------------------------------------------------- assembly
\* An assembly state st is [writer, block_offsets, applied, residue]:
\* the output cursor, the block-offsets list, the calls of apply_reference
\* made so far as <<offset, heap_offset>>, and what each heap's
\* all_relocations held when its to_writer returned.

RECURSIVE apply_relocations_newest_first(_, _, _)
\* (mutation) the relocations of a block are applied last inserted first
apply_relocations_newest_first(st, relocations, block_start) ==
    IF relocations = <<>> THEN st
    ELSE LET n == Len(relocations)
             offset == relocations[n][1]
             token == relocations[n][2]
             writer_pos == position(st.writer)
             patched == apply_reference(set_position(st.writer, offset),
                                        block_start + token.offset)
         IN  apply_relocations_newest_first(
                 [st EXCEPT !.writer = set_position(patched, writer_pos),
                            !.applied = Append(@, <<offset, block_start + token.offset>>)],
                 SubSeq(relocations, 1, n - 1), block_start)

RECURSIVE apply_relocations(_, _, _)
\* the loop over all_relocations_to_current in to_writer
apply_relocations(st, relocations, block_start) ==
    IF relocations = <<>> THEN st
    ELSE LET offset == relocations[1][1]
             token == relocations[1][2]
             writer_pos == position(st.writer)
             patched == apply_reference(set_position(st.writer, offset),
                                        block_start + token.offset)
         IN  apply_relocations(
                 [st EXCEPT !.writer = set_position(patched, writer_pos),
                            !.applied = Append(@, <<offset, block_start + token.offset>>)],
                 Tail(relocations), block_start)

RECURSIVE to_writer_blocks(_, _, _, _)
\* the loop over self.blocks in to_writer, from block block_id on
to_writer_blocks(h, block_id, all_relocations, st) ==
    IF block_id >= Len(h.blocks)
    THEN [st EXCEPT !.residue = Append(@, all_relocations)]
    ELSE LET block == h.blocks[block_id + 1]
             block_start == position(st.writer)
             st1 == [st EXCEPT !.block_offsets = Append(@, block_start),
                               !.writer = write_all(@, block.writer.inner)]
             ToCurrent(e) == e[2].block_id = block_id
             NotToCurrent(e) == e[2].block_id # block_id
             st2 == apply_relocations(st1, SelectSeq(all_relocations, ToCurrent),
                                      block_start)
             pushed == [i \in 1..Len(block.relocations) |->
                           <<block_start + block.relocations[i][1],
                             block.relocations[i][2]>>]
         IN  to_writer_blocks(h, block_id + 1,
                              SelectSeq(all_relocations, NotToCurrent) \o pushed, st2)

\* (mutation) the offsets pushed for a heap count from the heap's own start
to_writer_heap_local_offsets(h, st) ==
    LET r == to_writer_blocks(h, 0, <<>>, st)
        base == position(st.writer)
        n == Len(st.block_offsets)
    IN  [r EXCEPT !.block_offsets =
            [i \in 1..Len(r.block_offsets) |->
                IF i <= n THEN r.block_offsets[i] ELSE r.block_offsets[i] - base]]

\* WriteHeap::to_writer
to_writer(h, st) == to_writer_blocks(h, 0, <<>>, st)

\* (mutation) the heaps stay in the order of the map
in_map_order(m) == m

RECURSIVE sort_by_key(_)
\* heaps.sort_by_key(|(category, _)| *category)
sort_by_key(m) ==
    IF m = <<>> THEN <<>>
    ELSE LET i == CHOOSE i \in 1..Len(m) : \A j \in 1..Len(m) : m[i].key <= m[j].key
         IN  <<m[i]>> \o sort_by_key([j \in 1..(Len(m) - 1) |->
                                         IF j < i THEN m[j] ELSE m[j + 1]])

RECURSIVE to_writer_heaps(_, _)
\* the loop over the sorted heaps in to_buffer
to_writer_heaps(sorted, st) ==
    IF sorted = <<>> THEN st
    ELSE to_writer_heaps(Tail(sorted), to_writer(sorted[1].value, st))

\* WriteCtxImpl::to_buffer with a block-offsets list requested: the
\* returned bytes, the list, and the record of what assembly did
to_buffer(W) ==
    LET all == map_insert(W.heaps, DefaultCat, W.default_heap)
        st == to_writer_heaps(sort_by_key(all),
                  [writer |-> NewWriter, block_offsets |-> <<>>,
                   applied |-> <<>>, residue |-> <<>>])
    IN  [status |-> "Ok", out |-> st.writer.inner,
         block_offsets |-> st.block_offsets,
         applied |-> st.applied, residue |-> st.residue,
         heaps |-> sort_by_key(all)]

\* Ord::cmp on u32 and on usize
int_cmp(x, y) == IF x < y THEN "Less" ELSE IF x = y THEN "Equal" ELSE "Greater"

\* (mutation) the offsets are compared before the block ids
cmp_offset_first(self, other) ==
    IF int_cmp(self.offset, other.offset) # "Equal"
    THEN int_cmp(self.offset, other.offset)
    ELSE int_cmp(self.block_id, other.block_id)

\* #[derive(PartialEq, Eq)] for HeapToken: every field is compared
eq(self, other) ==
    /\ self.heap_id = other.heap_id
    /\ self.block_id = other.block_id
    /\ self.offset = other.offset

\* Ord for HeapToken: cmp
cmp(self, other) ==
    IF int_cmp(self.block_id, other.block_id) # "Equal"
    THEN int_cmp(self.block_id, other.block_id)
    ELSE int_cmp(self.offset, other.offset)

\* HeapToken::resolve: <<>> when the index is out of bounds (a panic)
resolve(token, block_offsets) ==
    IF token.block_id + 1 > Len(block_offsets) THEN <<>>
    ELSE <<block_offsets[token.block_id + 1] + token.offset>>

\* ------------------------------------------------------------------ reader
\* A reader is a Cursor over the input, [inner, pos] as a writer is. A
\* position of 2^31 or more is held as Far: no input of the model is that
\* long, so a read there fails as it does at any position past the end.
Far == 2147483647

\* Cursor::read_exact of n bytes: short of n bytes it fails and leaves the
\* cursor at the end of the input
read_exact(c, n) ==
    IF c.pos <= Len(c.inner) /\ n <= Len(c.inner) - c.pos
    THEN [ok |-> TRUE, buf |-> SubSeq(c.inner, c.pos + 1, c.pos + n),
          cursor |-> [c EXCEPT !.pos = c.pos + n]]
    ELSE [ok |-> FALSE, buf |-> <<>>, cursor |-> [c EXCEPT !.pos = Len(c.inner)]]

\* u32::from_reader under FormatCgfx (Endianness::Little): the four bytes
\* read are the value, least significant first
u32_from_reader(c) == read_exact(c, 4)

\* a + b on u32, with whether the sum left 32 bits
u32_add(a, b) ==
    LET carry(i) == IF low_bytes(a, i - 1) + low_bytes(b, i - 1) >= 256 ^ (i - 1)
                    THEN 1 ELSE 0
    IN  [bytes |-> [i \in 1..4 |-> (a[i] + b[i] + carry(i)) % 256],
         overflow |-> a[4] + b[4] + carry(4) >= 256]

\* Pointer as u64 (impl From<Pointer> for u64)
pointer_value(ptr) ==
    IF ptr[4] >= 128 THEN Far ELSE from_le_bytes(ptr, 0)

\* the builds of pos as u32 + raw_ptr: with overflow checks the sum panics
\* when it leaves 32 bits, without them it wraps
Builds == {"debug", "release"}

\* FormatCgfx::read_relative_ptr on a reader: [kind, cursor, ptr] with kind
\* "ok", "io" (the read of the word failed) or "panic"
reader_read_relative_ptr(c, build) ==
    LET pos == position(c)
        r == u32_from_reader(c)
        sum == u32_add(to_le_bytes(pos), r.buf)
    IN  IF ~r.ok THEN [kind |-> "io", cursor |-> r.cursor, ptr |-> <<>>]
        ELSE IF r.buf = <<0, 0, 0, 0>>
             THEN [kind |-> "ok", cursor |-> r.cursor, ptr |-> <<0, 0, 0, 0>>]
        ELSE IF sum.overflow /\ build = "debug"
             THEN [kind |-> "panic", cursor |-> r.cursor, ptr |-> <<>>]
        ELSE [kind |-> "ok", cursor |-> r.cursor, ptr |-> sum.bytes]

\* SeekGuard::new
SeekGuard_new(c) == [start_pos |-> position(c)]

\* (mutation) the guard is dropped without the seek back
SeekGuard_drop_without_seek(c, g) ==
    c

\* Drop for SeekGuard
SeekGuard_drop(c, g) ==
    set_position(c, g.start_pos)

\* A read state rd is [cursor, guards, mode, error, build]: the reader, the
\* SeekGuards alive on it (one for each read_content running, outermost
\* first), "run", "err" (an Err is on its way to the caller) or "panic",
\* the error, and the build of the program.
NoError == [kind |-> "none"]

\* FormatCgfx::read_box_nullable up to the call of read_content:
\* [rd, outcome] with outcome "io", "panic", "None" or "jump"
read_box_nullable(rd) ==
    LET p == reader_read_relative_ptr(rd.cursor, rd.build)
    IN  IF p.kind = "io"
        THEN [rd |-> [rd EXCEPT !.cursor = p.cursor, !.mode = "err",
                                !.error = [kind |-> "io"]],
              outcome |-> "io"]
        ELSE IF p.kind = "panic"
        THEN [rd |-> [rd EXCEPT !.cursor = p.cursor, !.mode = "panic"],
              outcome |-> "panic"]
        ELSE IF p.ptr = <<0, 0, 0, 0>>
        THEN [rd |-> [rd EXCEPT !.cursor = p.cursor], outcome |-> "None"]
        ELSE [rd |-> [rd EXCEPT
                        !.cursor = set_position(p.cursor, pointer_value(p.ptr)),
                        !.guards = Append(@, SeekGuard_new(p.cursor))],
              outcome |-> "jump"]

\* (mutation) the offset of the message is taken after the pointer was read
read_box_offset_after(rd) ==
    LET r == read_box_nullable(rd)
    IN  IF r.outcome = "None"
        THEN [rd |-> [r.rd EXCEPT !.mode = "err",
                                  !.error = [kind |-> "null",
                                             offset |-> position(r.rd.cursor)]],
              outcome |-> "null"]
        ELSE r

\* ReadDomainExt::read_box up to the call of read_content: None becomes
\* the error "Expected value, got null (at offset 0x{offset:x})"
read_box(rd) ==
    LET offset == position(rd.cursor)
        r == read_box_nullable(rd)
    IN  IF r.outcome = "None"
        THEN [rd |-> [r.rd EXCEPT !.mode = "err",
                                  !.error = [kind |-> "null", offset |-> offset]],
              outcome |-> "null"]
        ELSE r

\* read_content returned, or a panic unwinds through read_box_nullable:
\* the guard of the innermost read_box_nullable is dropped
release(rd) ==
    LET n == Len(rd.guards)
    IN  [rd EXCEPT !.cursor = SeekGuard_drop(rd.cursor, rd.guards[n]),
                   !.guards = SubSeq(@, 1, n - 1)]

\* ------------------------------------------------------------- primitives
\* A number of K bytes is the sequence of its K base-256 digits, most
\* significant first, as a hexadecimal literal is written: 0x3F800000 is
\* <<63, 128, 0, 0>>. A float is the number that is its bit pattern.

Reverse(q) == [i \in 1..Len(q) |-> q[Len(q) + 1 - i]]

\* Endianness
Endiannesses == {"Little", "Big"}

\* $type::to_le_bytes / $type::to_be_bytes, as to_writer_simple picks them
to_bytes(value, endianness) ==
    IF endianness = "Little" THEN Reverse(value) ELSE value

\* $type::from_le_bytes / $type::from_be_bytes, as from_reader_any picks them
from_bytes(buf, endianness) ==
    IF endianness = "Little" THEN Reverse(buf) ELSE buf

\* impl_rw_number!: SimpleWritable::to_writer_simple
number_to_writer_simple(w, value, endianness) ==
    write_all(w, to_bytes(value, endianness))

\* (mutation) the bytes are taken as little-endian whatever the domain says
number_from_le_reader(c, byte_size, endianness) ==
    LET r == read_exact(c, byte_size)
    IN  [ok |-> r.ok, cursor |-> r.cursor,
         value |-> IF r.ok THEN Reverse(r.buf) ELSE <<>>]

\* impl_rw_number!: AnyReadable::from_reader_any
number_from_reader_any(c, byte_size, endianness) ==
    LET r == read_exact(c, byte_size)
    IN  [ok |-> r.ok, cursor |-> r.cursor,
         value |-> IF r.ok THEN from_bytes(r.buf, endianness) ELSE <<>>]

RECURSIVE record_to_writer(_, _, _)
\* a record of numbers: each field's to_writer in turn
record_to_writer(w, fields, endianness) ==
    IF fields = <<>> THEN w
    ELSE record_to_writer(number_to_writer_simple(w, Head(fields), endianness),
                          Tail(fields), endianness)

RECURSIVE record_from_reader(_, _, _)
\* a record of numbers of the given byte sizes: each field's from_reader in
\* turn, the ? returning the first error
record_from_reader(c, sizes, endianness) ==
    IF sizes = <<>> THEN [ok |-> TRUE, cursor |-> c, value |-> <<>>]
    ELSE LET r == number_from_reader_any(c, Head(sizes), endianness)
             rest == record_from_reader(r.cursor, Tail(sizes), endianness)
         IN  IF ~r.ok THEN [ok |-> FALSE, cursor |-> r.cursor, value |-> <<>>]
             ELSE [rest EXCEPT !.value = <<r.value>> \o @]

\* ---------------------------------------------------------------- strings
\* A str is the sequence of the bytes of its UTF-8 encoding (as_bytes).

RECURSIVE utf8_valid(_)
\* core::str::from_utf8, for bytes below 0xE0 and 0xFF: a byte below 0x80
\* stands alone, 0xC2..0xDF leads one continuation byte 0x80..0xBF, and
\* 0x80..0xC1 and 0xFF never start a character
utf8_valid(bytes) ==
    IF bytes = <<>> THEN TRUE
    ELSE IF bytes[1] < 128 THEN utf8_valid(Tail(bytes))
    ELSE IF bytes[1] >= 194 /\ bytes[1] <= 223
         THEN /\ Len(bytes) >= 2
              /\ bytes[2] >= 128 /\ bytes[2] <= 191
              /\ utf8_valid(Tail(Tail(bytes)))
    ELSE FALSE

from_utf8(bytes) == [ok |-> utf8_valid(bytes), value |-> bytes]

\* Writer::write_str
write_str(w, string) == write_all(w, string)

\* (mutation) the string without its terminator
write_c_str_unterminated(w, string) == write_str(w, string)

\* Writer::write_c_str
write_c_str(w, string) == write_all(write_str(w, string), <<0>>)

RECURSIVE read_c_str_loop(_, _)
\* the loop of read_c_str: one byte at a time until a zero byte; a failed
\* read_exact returns the error through ?
read_c_str_loop(c, bytes) ==
    LET b == read_exact(c, 1)
    IN  IF ~b.ok THEN [ok |-> FALSE, error |-> "io", cursor |-> b.cursor,
                       value |-> <<>>]
        ELSE IF b.buf[1] = 0
             THEN [ok |-> TRUE, error |-> "none", cursor |-> b.cursor,
                   value |-> bytes]
        ELSE read_c_str_loop(b.cursor, Append(bytes, b.buf[1]))

\* Reader::read_c_str
read_c_str(c) ==
    LET r == read_c_str_loop(c, <<>>)
    IN  IF r.ok /\ ~from_utf8(r.value).ok
        THEN [ok |-> FALSE, error |-> "utf8", cursor |-> r.cursor, value |-> <<>>]
        ELSE r

\* ------------------------------------------------- Npc (src/src/main.rs)
\* An Npc is [name, position, is_visible, item_ids, child]: a str, three
\* floats, a bool, a sequence of u32 and a NewBoxedChild [id, visible].
\* A read returns [ok, cursor, value]; a panic of the read is not ok.

ReadErr(c) == [ok |-> FALSE, cursor |-> c, value |-> <<>>]

\* the number a u32 is, Far from 2^31 on
u32_value(v) ==
    IF v[1] >= 128 THEN Far
    ELSE 16777216 * v[1] + 65536 * v[2] + 256 * v[3] + v[4]

\* len as u32
u32_of(n) == Reverse(to_le_bytes(n))

\* u32::from_reader under FormatCgfx
u32_from_reader_any(c) == number_from_reader_any(c, 4, "Little")

\* bool::from_reader_any: BoolSize::U32, the word read != 0
bool_from_reader_any(c) ==
    LET r == u32_from_reader_any(c)
    IN  IF r.ok THEN [r EXCEPT !.value = (r.value # <<0, 0, 0, 0>>)] ELSE r

\* FormatCgfx::read_str
read_str(c, build) ==
    LET ptr == reader_read_relative_ptr(c, build)
        guard == SeekGuard_new(ptr.cursor)
        r == read_c_str(set_position(ptr.cursor, pointer_value(ptr.ptr)))
    IN  IF ptr.kind # "ok" THEN ReadErr(ptr.cursor)
        ELSE [ok |-> r.ok, cursor |-> SeekGuard_drop(r.cursor, guard),
              value |-> r.value]

\* derive(Readable) for Vec3: x, y and z in turn
Vec3_from_reader(c) == record_from_reader(c, <<4, 4, 4>>, "Little")

RECURSIVE read_vec_content(_, _)
\* the closure of read_vec: count times read_content, here u32::from_reader
read_vec_content(c, count) ==
    IF count = 0 THEN [ok |-> TRUE, cursor |-> c, value |-> <<>>]
    ELSE LET r == u32_from_reader_any(c)
             rest == read_vec_content(r.cursor, count - 1)
         IN  IF ~r.ok THEN ReadErr(r.cursor)
             ELSE [rest EXCEPT !.value = <<r.value>> \o @]

\* FormatCgfx::read_vec with read_box_nullable: the count, then the
\* pointer; a null pointer is the empty vector
read_vec(c, build) ==
    LET count == u32_from_reader_any(c)
        ptr == reader_read_relative_ptr(count.cursor, build)
        guard == SeekGuard_new(ptr.cursor)
        r == read_vec_content(set_position(ptr.cursor, pointer_value(ptr.ptr)),
                              u32_value(count.value))
    IN  IF ~count.ok THEN ReadErr(count.cursor)
        ELSE IF ptr.kind # "ok" THEN ReadErr(ptr.cursor)
        ELSE IF ptr.ptr = <<0, 0, 0, 0>>
             THEN [ok |-> TRUE, cursor |-> ptr.cursor, value |-> <<>>]
        ELSE [ok |-> r.ok, cursor |-> SeekGuard_drop(r.cursor, guard),
              value |-> r.value]

\* derive(Readable) for NewBoxedChild: id and visible in turn
NewBoxedChild_from_reader_unboxed(c) ==
    LET id == u32_from_reader_any(c)
        visible == bool_from_reader_any(id.cursor)
    IN  IF ~id.ok THEN ReadErr(id.cursor)
        ELSE IF ~visible.ok THEN ReadErr(visible.cursor)
        ELSE [ok |-> TRUE, cursor |-> visible.cursor,
              value |-> [id |-> id.value, visible |-> visible.value]]

\* derive(Readable) with #[boxed]: read_box of from_reader_unboxed; a null
\* pointer is an error
NewBoxedChild_from_reader(c, build) ==
    LET ptr == reader_read_relative_ptr(c, build)
        guard == SeekGuard_new(ptr.cursor)
        r == NewBoxedChild_from_reader_unboxed(
                 set_position(ptr.cursor, pointer_value(ptr.ptr)))
    IN  IF ptr.kind # "ok" \/ ptr.ptr = <<0, 0, 0, 0>> THEN ReadErr(ptr.cursor)
        ELSE [ok |-> r.ok, cursor |-> SeekGuard_drop(r.cursor, guard),
              value |-> r.value]

\* Readable for Npc: from_reader_unboxed
Npc_from_reader(c, build) ==
    LET name == read_str(c, build)
        pos == Vec3_from_reader(name.cursor)
        is_visible == bool_from_reader_any(pos.cursor)
        item_ids == read_vec(is_visible.cursor, build)
        child == NewBoxedChild_from_reader(item_ids.cursor, build)
    IN  IF ~name.ok THEN ReadErr(name.cursor)
        ELSE IF ~pos.ok THEN ReadErr(pos.cursor)
        ELSE IF ~is_visible.ok THEN ReadErr(is_visible.cursor)
        ELSE IF ~item_ids.ok THEN ReadErr(item_ids.cursor)
        ELSE IF ~child.ok THEN ReadErr(child.cursor)
        ELSE [ok |-> TRUE, cursor |-> child.cursor,
              value |-> [name |-> name.value, position |-> pos.value,
                         is_visible |-> is_visible.value,
                         item_ids |-> item_ids.value, child |-> child.value]]

\* impl_writable_from_simple!: to_writer_simple on ctx.cur_writer()
u32_to_writer(h, value) ==
    with_cur_writer(h, number_to_writer_simple(cur_writer(h), value, "Little"))

\* SimpleWritable for bool: *self as u32
bool_to_writer(h, value) ==
    u32_to_writer(h, IF value THEN <<0, 0, 0, 1>> ELSE <<0, 0, 0, 0>>)

\* derive(Writable) for Vec3
Vec3_to_writer(h, value) ==
    with_cur_writer(h, record_to_writer(cur_writer(h), value, "Little"))

\* FormatCgfx::write_str_new: the pointer word of the name is written as 0
write_str_new(h) == u32_to_writer(h, <<0, 0, 0, 0>>)

\* FormatCgfx::write_str_new_post
write_str_new_post(h, value) ==
    with_cur_writer(h, write_c_str(cur_writer(h), value))

\* write_slice_args_of for NewSerialization: the length, then 0
write_slice_args_of(h, values) ==
    u32_to_writer(u32_to_writer(h, u32_of(Len(values))), <<0, 0, 0, 0>>)

RECURSIVE write_slice_args_post_of(_, _)
\* write_slice_args_post_of for NewSerialization: write_content of every
\* value, here u32::to_writer
write_slice_args_post_of(h, values) ==
    IF values = <<>> THEN h
    ELSE write_slice_args_post_of(u32_to_writer(h, Head(values)), Tail(values))

\* Writable::to_writer_post of a type that does not override it (f32,
\* bool, Vec3) and Writable::to_writer_unboxed_post of NewBoxedChild:
\* nothing is written
to_writer_post_default(h) == h

\* WriteSliceWithArgsFallbackExt::write_slice_args_post_fallback
write_slice_args_post_fallback(h, values) == write_slice_args_post_of(h, values)

\* NewBoxedChild::to_writer_unboxed
NewBoxedChild_to_writer_unboxed(h, child) ==
    bool_to_writer(u32_to_writer(h, child.id), child.visible)

\* NewBoxedChild::to_writer: the pointer word of the child is written as 0
NewBoxedChild_to_writer(h, child) == u32_to_writer(h, <<0, 0, 0, 0>>)

\* NewBoxedChild::to_writer_post
NewBoxedChild_to_writer_post(h, child) ==
    to_writer_post_default(NewBoxedChild_to_writer_unboxed(h, child))

\* Writable for Npc: to_writer_unboxed, which the default to_writer calls
Npc_to_writer(h, npc) ==
    LET h1 == write_str_new(h)
        h2 == Vec3_to_writer(h1, npc.position)
        h3 == bool_to_writer(h2, npc.is_visible)
        h4 == write_slice_args_of(h3, npc.item_ids)
    IN  NewBoxedChild_to_writer(h4, npc.child)

\* Writable for Npc: to_writer_unboxed_post, which the default
\* to_writer_post calls
Npc_to_writer_post(h, npc) ==
    LET h1 == write_str_new_post(h, npc.name)
        h2 == to_writer_post_default(h1)
        h3 == to_writer_post_default(h2)
        h4 == write_slice_args_post_fallback(h3, npc.item_ids)
    IN  NewBoxedChild_to_writer_post(h4, npc.child)

\* ---------------------------------------------------------------- booleans
\* BoolSize
BoolSizes == {"U8", "U16", "U32", "U64"}

\* the bytes of the number a BoolSize names
bool_byte_size(args) ==
    IF args = "U8" THEN 1 ELSE IF args = "U16" THEN 2
    ELSE IF args = "U32" THEN 4 ELSE 8

\* (mutation) only the word 1 reads as true
bool_from_reader_args_one(c, endianness, args) ==
    LET r == number_from_reader_any(c, bool_byte_size(args), endianness)
        one == [i \in 1..bool_byte_size(args) |->
                   IF i = bool_byte_size(args) THEN 1 ELSE 0]
    IN  IF r.ok THEN [r EXCEPT !.value = (r.value = one)] ELSE r

\* ReadableWithArgs<BoolSize> for bool: the number of that size != 0
bool_from_reader_args(c, endianness, args) ==
    LET r == number_from_reader_any(c, bool_byte_size(args), endianness)
    IN  IF r.ok
        THEN [r EXCEPT !.value = (r.value # [i \in 1..bool_byte_size(args) |-> 0])]
        ELSE r

\* AnyReadable for bool: from_reader_args with BoolSize::U32
bool_from_reader(c, endianness) == bool_from_reader_args(c, endianness, "U32")

\* SimpleWritable for bool: (*self as u32).to_writer_simple
bool_to_writer_simple(w, value, endianness) ==
    number_to_writer_simple(w, IF value THEN <<0, 0, 0, 1>> ELSE <<0, 0, 0, 0>>,
                            endianness)

\* ------------------------------------------------------------ write_slice_of
RECURSIVE write_slice_content(_, _)
\* the callback of write_slice_of: write_content of every value, here
\* u32::to_writer on the inner context
write_slice_content(h, values) ==
    IF values = <<>> THEN h
    ELSE write_slice_content(u32_to_writer(h, Head(values)), Tail(values))

\* FormatCgfx::write_slice_of on the context of depth k of W: the length,
\* allocate_next_block(None, ..) around the callback, and write_token of the
\* token it returned
write_slice_of(W, values) ==
    LET k == Len(W.inner)
        at == deref_mut(W, k)
        W1 == with_heap_at(W, at, u32_to_writer(heap_at(W, at), u32_of(Len(values))))
        e == allocate_enter(W1, <<>>, 0)
        W2 == [e.w EXCEPT !.inner[k + 1].default_heap =
                              write_slice_content(@, values)]
        W3 == allocate_exit_ok(W2, e.prev_current_block)
        at3 == deref_mut(W3, k)
    IN  with_heap_at(W3, at3, write_token(heap_at(W3, at3), e.new_block_token))

\* ------------------------------------------------- the loops of the readers
\* A running read_c_str or read_str is [fn, cursor, bytes, left, out]: the
\* reader, the Vec bytes, the iterations of 0..size still to run (read_str)
\* and the result, [kind |-> "running"] until the function returns.

\* Ok(from_utf8(&bytes)?.to_owned())
return_from_utf8(s) ==
    IF from_utf8(s.bytes).ok
    THEN [s EXCEPT !.out = [kind |-> "ok", value |-> s.bytes]]
    ELSE [s EXCEPT !.out = [kind |-> "utf8"]]

\* (mutation) a failed read_exact is taken for no byte yet, and read again
read_c_str_step_retrying(s) ==
    LET b == read_exact(s.cursor, 1)
    IN  IF ~b.ok THEN [s EXCEPT !.cursor = b.cursor]
        ELSE IF b.buf[1] = 0 THEN return_from_utf8([s EXCEPT !.cursor = b.cursor])
        ELSE [s EXCEPT !.cursor = b.cursor, !.bytes = Append(@, b.buf[1])]

\* Reader::read_c_str: one iteration of the loop
read_c_str_step(s) ==
    LET b == read_exact(s.cursor, 1)
    IN  IF ~b.ok THEN [s EXCEPT !.cursor = b.cursor, !.out = [kind |-> "io"]]
        ELSE IF b.buf[1] = 0 THEN return_from_utf8([s EXCEPT !.cursor = b.cursor])
        ELSE [s EXCEPT !.cursor = b.cursor, !.bytes = Append(@, b.buf[1])]

\* Reader::read_str: one iteration of for _ in 0..size, or the return
\* after the last one
read_str_step(s) ==
    LET b == read_exact(s.cursor, 1)
    IN  IF s.left = 0 THEN return_from_utf8(s)
        ELSE IF ~b.ok THEN [s EXCEPT !.cursor = b.cursor, !.out = [kind |-> "io"]]
        ELSE [s EXCEPT !.cursor = b.cursor, !.bytes = Append(@, b.buf[1]),
                       !.left = @ - 1]

\* ------------------------------------------------------------------- state
VARIABLES
    default_heap,   \* WriteCtxImpl.default_heap
    heaps,          \* WriteCtxImpl.heaps
    inner,          \* the live InnerWriteCtx values, outermost first
    calls,          \* the locals of the allocate_next_block call behind each
    pc,             \* "open", "failed" (an Err is propagating), "done"
    result,         \* what to_buffer returned
    hist,           \* the calls made so far, the tokens the client holds, and
                    \* what the run wrote, for the properties to compare against
    last,           \* the operation that led to this state
    reader,         \* a Reader over an input, the SeekGuards alive on it and
                    \* the value or error on its way to the caller
    rhist,          \* the reads made so far and what each guard saw when it
                    \* was made, for the properties to compare against
    al,             \* a writer, the alignment align_to is called with on it,
                    \* and what the call did
    fx              \* the arguments a function of the library is called with
                    \* by itself, and what it returned

vars == <<default_heap, heaps, inner, calls, pc, result, hist, last,
          reader, rhist, al, fx>>

Ctx == [default_heap |-> default_heap, heaps |-> heaps, inner |-> inner]

SetCtx(w) ==
    /\ default_heap' = w.default_heap
    /\ heaps' = w.heaps
    /\ inner' = w.inner

Depth == Len(inner)

\* the heap of a category as the innermost context finds it; a category
\* that has no heap yet reads as a new heap
heap_of(W, c) ==
    LET o == inner_heap(W, Len(W.inner), c)
    IN  IF o = <<>> THEN NewWriteHeap ELSE o[1]

\* the bytes of block blk of a heap, <<>> when the heap has no such block
block_bytes(h, blk) ==
    IF blk + 1 <= Len(h.blocks) THEN h.blocks[blk + 1].writer.inner ELSE <<>>

current_blocks(W) == [c \in AllCats |-> heap_of(W, c).current_block]

\* hist after heap_id_of(c) returned id: the first id of a category is kept
\* with the number of categories that had an id before it
note_id(h, c, id) ==
    [h EXCEPT !.firstId[c] =
        IF @ = <<>>
        THEN <<id, Cardinality({d \in AllCats : h.firstId[d] # <<>>})>>
        ELSE @]

\* hist after bytes (and the tokens toks) went to block blk of category c
note_written(h, c, blk, bytes, toks) ==
    [h EXCEPT !.written[c] = Append(@, [blk |-> blk, bytes |-> bytes, toks |-> toks])]

\* a context that holds nothing but its default heap, with no call made
InitRest ==
    /\ heaps = <<>>
    /\ inner = <<>>
    /\ calls = <<>>
    /\ pc = "open"
    /\ result = [status |-> "none"]
    /\ hist = [ops |-> 0,
               pre |-> <<>>, held |-> <<>>, firstAt |-> <<>>,
               minted |-> {}, relocs |-> {},
               written |-> [c \in AllCats |-> <<>>],
               firstId |-> [c \in AllCats |-> <<>>],
               deep |-> [c \in AllCats |-> 0]]
    /\ last = [op |-> "new"]

InitCtx ==
    /\ default_heap = NewWriteHeap
    /\ InitRest

\* no reader and no bare writer beside the context
NoReader == [cursor |-> NewWriter, guards |-> <<>>, mode |-> "none",
             error |-> NoError, build |-> "release"]
NoReads == [ops |-> 0, made |-> <<>>, last |-> [op |-> "new"]]
NoAlign == [writer |-> NewWriter, alignment |-> 0, out |-> "none", before |-> NewWriter]
NoCall == [op |-> "none"]

Init ==
    /\ InitCtx
    /\ reader = NoReader
    /\ rhist = NoReads
    /\ al = NoAlign
    /\ fx = NoCall

\* hist after a byte went to offset at of the block call k allocated: the
\* first such offset of each call is kept
note_first_in(h, k, at) ==
    IF k = 0 THEN h
    ELSE [h EXCEPT !.firstAt[k] = IF @ = -1 THEN at ELSE @]

note_first(h, at) == note_first_in(h, Len(h.firstAt), at)

\* the innermost call whose inner context holds the heap of category c, 0
\* when no inner context holds it
holder(W, c) ==
    LET S == {k \in 1..Len(W.inner) : W.inner[k].default_category = c}
    IN  IF S = {} THEN 0 ELSE CHOOSE k \in S : \A j \in S : j <= k

\* the bytes block token.block_id of h holds from token.offset on
written_since(h, token) ==
    LET bytes == block_bytes(h, token.block_id)
    IN  SubSeq(bytes, token.offset + 1, Len(bytes))

\* write_token(m.tok) is the second half of write_box_of: the step before
\* was the return of allocate_next_block(None, ..) with that token, to the
\* context that now writes it
is_write_box_of(m) ==
    /\ last.op = "callback_ok"
    /\ last.token = m.tok
    /\ last.cat = DefaultCat
    /\ last.depth = Depth + 1
    /\ m.kind = "alloc"
    /\ m.cat = DefaultCat

\* ctx.write_all(&[v]) through DerefMut: one byte into the current block of
\* the innermost context's own heap
Write(v, budget) ==
    /\ pc = "open"
    /\ hist.ops < budget
    /\ LET at == deref_mut(Ctx, Depth)
           h == heap_at(Ctx, at)
           h2 == with_cur_writer(h, write_all(cur_writer(h), <<v>>))
       IN  /\ SetCtx(with_heap_at(Ctx, at, h2))
           /\ hist' = note_first(
                  note_written([hist EXCEPT !.ops = @ + 1],
                               own_category(Ctx, Depth), h.current_block, <<v>>, <<>>),
                  Len(cur_writer(h).inner))
    /\ last' = [op |-> "step"]
    /\ UNCHANGED <<calls, pc, result, reader, rhist, al, fx>>

\* ctx.heap_mut(c).write_all(&[v]): one byte into the current block of the
\* heap of category c
HeapMutWrite(c, v, budget) ==
    /\ pc = "open"
    /\ hist.ops < budget
    /\ LET r == inner_heap_mut(Ctx, Depth, c)
           h == heap_at(r.w, r.at)
           h2 == with_cur_writer(h, write_all(cur_writer(h), <<v>>))
       IN  /\ SetCtx(with_heap_at(r.w, r.at, h2))
           /\ hist' = note_first_in(
                  note_written([hist EXCEPT !.ops = @ + 1],
                               c, h.current_block, <<v>>, <<>>),
                  holder(Ctx, c), Len(cur_writer(h).inner))
    /\ last' = [op |-> "step"]
    /\ UNCHANGED <<calls, pc, result, reader, rhist, al, fx>>

\* ctx.write_token::<4>(token) through DerefMut, with a token the client holds
WriteToken(m, budget) ==
    /\ pc = "open"
    /\ hist.ops < budget
    /\ LET at == deref_mut(Ctx, Depth)
           h == heap_at(Ctx, at)
           c == own_category(Ctx, Depth)
           p == Len(cur_writer(h).inner)
       IN  /\ SetCtx(with_heap_at(Ctx, at, write_token(h, m.tok)))
           /\ hist' = note_first(
                  note_written(
                      [hist EXCEPT !.ops = @ + 1,
                                   !.relocs = @ \cup {[cat |-> c, blk |-> h.current_block,
                                                       pos |-> p, m |-> m,
                                                       box |-> is_write_box_of(m)]}],
                      c, h.current_block, Zeroes(BYTE_SIZE), <<m.tok>>),
                  p)
    /\ last' = [op |-> "write_token", token |-> m.tok, pre |-> Ctx]
    /\ UNCHANGED <<calls, pc, result, reader, rhist, al, fx>>

\* ctx.heap_id_of(c)
HeapIdOf(c) ==
    /\ pc = "open"
    /\ LET r == inner_heap_id_of(Ctx, Depth, c)
       IN  /\ SetCtx(r.w)
           /\ hist' = note_id(hist, c, r.id)
           /\ last' = [op |-> "step"]
    /\ UNCHANGED <<calls, pc, result, reader, rhist, al, fx>>

\* ctx.heap_token_at_current_pos(), WriteCtxImpl's at level 0 and
\* InnerWriteCtx's above; the client keeps the token
HeapTokenAtCurrentPos(budget) ==
    /\ pc = "open"
    /\ hist.ops < budget
    /\ LET c == own_category(Ctx, Depth)
           r == IF Depth = 0 THEN heap_id_of(Ctx, DefaultCat)
                ELSE inner_heap_id_of(Ctx, Depth - 1, c)
           h == heap_at(r.w, deref_mut(r.w, Depth))
           token == heap_token_at_current_pos_inner(h, r.id)
       IN  /\ SetCtx(r.w)
           /\ hist' = [note_id(hist, c, r.id) EXCEPT
                          !.ops = @ + 1,
                          !.minted = @ \cup {[tok |-> token, cat |-> c, kind |-> "pos",
                                              held |-> cur_writer(h).inner,
                                              first |-> -1, under |-> <<>>,
                                              content |-> <<>>]}]
           /\ last' = [op |-> "step"]
    /\ UNCHANGED <<calls, pc, result, reader, rhist, al, fx>>

\* the number of allocations on the heap of category c whose callbacks are
\* running in W
nesting(W, c) ==
    Cardinality({j \in 1..Len(W.inner) : W.inner[j].default_category = c})

\* allocate_next_block_aligned(category, alignment, callback) up to the call
\* of the callback
Enter(category, alignment, budget) ==
    /\ pc = "open"
    /\ Depth < MaxDepth
    /\ hist.ops < budget
    /\ LET cat == unwrap_or_default(category)
           before == heap_of(Ctx, cat)
           r == allocate_enter(Ctx, category, alignment)
           h == r.w.inner[Depth + 1].default_heap
           id == r.new_block_token.heap_id
       IN  /\ SetCtx(r.w)
           /\ calls' = Append(calls, [prev_current_block |-> r.prev_current_block,
                                      new_block_token |-> r.new_block_token])
           /\ hist' = [note_written(note_id(hist, cat, id), cat, h.current_block,
                           SubSeq(cur_writer(h).inner,
                                  Len(block_bytes(before, h.current_block)) + 1,
                                  Len(cur_writer(h).inner)),
                           <<>>)
                       EXCEPT !.ops = @ + 1,
                              !.deep[cat] = Max(@, nesting(r.w, cat)),
                              !.pre = Append(@, current_blocks(Ctx)),
                              !.held = Append(@, cur_writer(h).inner),
                              !.firstAt = Append(@, -1)]
           /\ last' = [op |-> "enter", cat |-> cat, alignment |-> alignment,
                       before |-> before, category |-> category,
                       own |-> heap_at(Ctx, deref_mut(Ctx, Depth))]
    /\ UNCHANGED <<pc, result, reader, rhist, al, fx>>

\* allocate_next_block(category, callback) is the aligned call with alignment 0
AllocateNextBlock(category, budget) == Enter(category, 0, budget)

AllocateNextBlockAligned(category, alignment, budget) ==
    Enter(category, alignment, budget)

\* the token of the allocation in whose callback, and on whose heap, call k
\* was made; <<>> when there is none
enclosing(k) ==
    IF k >= 2 /\ inner[k - 1].default_category = inner[k].default_category
    THEN <<calls[k - 1].new_block_token>>
    ELSE <<>>

\* hist with the observations of the innermost call removed
pop_hist(h) ==
    [h EXCEPT !.pre = SubSeq(@, 1, Len(@) - 1),
              !.held = SubSeq(@, 1, Len(@) - 1),
              !.firstAt = SubSeq(@, 1, Len(@) - 1)]

\* the callback returns Ok(()): allocate_next_block puts current_block back,
\* drops the inner context and returns the token to its caller
CallbackOk ==
    /\ pc = "open"
    /\ Depth > 0
    /\ LET f == calls[Depth]
           cat == inner[Depth].default_category
       IN  /\ SetCtx(allocate_exit_ok(Ctx, f.prev_current_block))
           /\ hist' = [pop_hist(hist) EXCEPT
                          !.minted = @ \cup
                              {[tok |-> f.new_block_token, cat |-> cat, kind |-> "alloc",
                                held |-> hist.held[Depth],
                                first |-> hist.firstAt[Depth],
                                under |-> enclosing(Depth),
                                content |-> written_since(inner[Depth].default_heap,
                                                          f.new_block_token)]}]
           /\ last' = [op |-> "callback_ok", cat |-> cat, pre |-> hist.pre[Depth],
                       depth |-> Depth, token |-> f.new_block_token]
    /\ calls' = SubSeq(calls, 1, Depth - 1)
    /\ UNCHANGED <<pc, result, reader, rhist, al, fx>>

\* the callback returns Err: the ? in allocate_next_block returns it to the
\* caller, which propagates it in turn
CallbackErr ==
    /\ pc \in {"open", "failed"}
    /\ Depth > 0
    /\ LET f == calls[Depth]
           cat == inner[Depth].default_category
       IN  /\ SetCtx(allocate_exit_err(Ctx, f.prev_current_block))
           /\ hist' = pop_hist(hist)
           /\ last' = [op |-> "callback_err", cat |-> cat, pre |-> hist.pre[Depth],
                       depth |-> Depth]
    /\ calls' = SubSeq(calls, 1, Depth - 1)
    /\ pc' = "failed"
    /\ UNCHANGED <<result, reader, rhist, al, fx>>

\* ctx.to_buffer(domain, Some(&mut block_offsets)); it takes the context by
\* value, so no inner context is alive
ToBuffer ==
    /\ pc = "open"
    /\ Depth = 0
    /\ result' = to_buffer(Ctx)
    /\ pc' = "done"
    /\ last' = [op |-> "to_buffer"]
    /\ UNCHANGED <<default_heap, heaps, inner, calls, hist, reader, rhist, al, fx>>

\* the context protocol: every operation of a WriteCtx short of assembly
Next ==
    \/ \E v \in DataBytes : Write(v, MaxOps)
    \/ \E m \in hist.minted : WriteToken(m, MaxOps)
    \/ \E c \in Cats : HeapIdOf(c)
    \/ HeapTokenAtCurrentPos(MaxOps)
    \/ \E c \in Cats, v \in DataBytes : HeapMutWrite(c, v, MaxOps)
    \/ \E category \in OptCats : AllocateNextBlock(category, MaxOps)
    \/ \E category \in OptCats, alignment \in Alignments :
           AllocateNextBlockAligned(category, alignment, MaxOps)
    \/ CallbackOk
    \/ CallbackErr

Spec == Init /\ [][Next]_vars

\* building a context and assembling it.  A context in which a callback
\* failed is discarded, not assembled, so no callback fails here.
NextAssemble ==
    \/ \E v \in DataBytes : Write(v, MaxAsmOps)
    \/ \E c \in Cats, v \in DataBytes : HeapMutWrite(c, v, MaxAsmOps)
    \/ \E m \in hist.minted : WriteToken(m, MaxAsmOps)
    \/ HeapTokenAtCurrentPos(MaxAsmOps)
    \/ \E category \in OptCats : AllocateNextBlock(category, MaxAsmOps)
    \/ \E category \in OptCats, alignment \in Alignments :
           AllocateNextBlockAligned(category, alignment, MaxAsmOps)
    \/ CallbackOk
    \/ ToBuffer

SpecAssemble == Init /\ [][NextAssemble]_vars

\* category-tagged writes over all categories of the format, then assembly:
\* no tokens are written, so the output holds the written bytes only
NextOrder ==
    \/ \E v \in OrderBytes : Write(v, MaxOrderOps)
    \/ \E c \in AllCats, v \in OrderBytes : HeapMutWrite(c, v, MaxOrderOps)
    \/ \E c \in AllCats : AllocateNextBlock(<<c>>, MaxOrderOps)
    \/ CallbackOk
    \/ ToBuffer

SpecOrder == Init /\ [][NextOrder]_vars

\* ------------------------------------------------------ the final layout
\* What assembly has to produce, read off the heaps themselves.

\* the categories that have a heap when the context is assembled
final_cats == {c \in AllCats : c = DefaultCat \/ index_of(heaps, c) # 0}

\* the heap of category c when the context is assembled
final_heap(c) ==
    IF c = DefaultCat THEN default_heap ELSE heaps[index_of(heaps, c)].value

RECURSIVE bytes_before(_, _)
\* the number of bytes in the blocks of h before block blk
bytes_before(h, blk) ==
    IF blk = 0 THEN 0
    ELSE bytes_before(h, blk - 1) + Len(h.blocks[blk].writer.inner)

RECURSIVE heaps_before(_, _)
\* the number of bytes in the heaps of the categories in S that sort before c
heaps_before(S, c) ==
    IF S = {} THEN 0
    ELSE LET d == CHOOSE d \in S : TRUE
         IN  (IF d < c /\ d \in final_cats
              THEN bytes_before(final_heap(d), Len(final_heap(d).blocks)) ELSE 0)
             + heaps_before(S \ {d}, c)

\* the absolute offset, in the assembled output, of byte off of block blk of
\* the heap of category c
abs_offset(c, blk, off) ==
    heaps_before(AllCats, c) + bytes_before(final_heap(c), blk) + off

\* the number of apply_reference calls assembly made at output offset p
times_applied(p) ==
    Cardinality({i \in 1..Len(result.applied) : result.applied[i][1] = p})

\* ------------------------------------------------------------------- C1
\* C1: when the callback of allocate_next_block or
\* allocate_next_block_aligned returns Ok, every heap, the selected one
\* included, is parked at the block it was parked at immediately before
\* that call, at every nesting depth.
C1_RestoredOnReturn ==
    last.op = "callback_ok" =>
        \A c \in AllCats : heap_of(Ctx, c).current_block = last.pre[c]

\* a nested call on a heap that was parked at block 1 has returned
C1_Witness ==
    /\ last.op = "callback_ok"
    /\ last.depth = 2
    /\ last.pre[last.cat] = 1
    /\ Len(heap_of(Ctx, last.cat).blocks) = 3

\* ------------------------------------------------------------------- C2
\* C2: when the callback fails, the caller finds the selected heap parked
\* at the block it was parked at before the call.
C2_RestoredOnError ==
    last.op = "callback_err" =>
        heap_of(Ctx, last.cat).current_block = last.pre[last.cat]

\* ------------------------------------------------------------------- C3
\* the blocks a heap must hold after the writes logged in L: block b holds
\* the logged bytes of block b in order, and a relocation for each logged
\* token at the offset its placeholder went to
logged_blocks(L) ==
    LET n == IF L = <<>> THEN 1
             ELSE 1 + (CHOOSE b \in {L[i].blk : i \in 1..Len(L)} :
                          \A i \in 1..Len(L) : L[i].blk <= b)
        OfBlock(b) == SelectSeq(L, LAMBDA e : e.blk = b)
        RECURSIVE lay(_, _, _)
        lay(items, bytes, relocations) ==
            IF items = <<>> THEN [bytes |-> bytes, relocations |-> relocations]
            ELSE lay(Tail(items), bytes \o items[1].bytes,
                     IF items[1].toks = <<>> THEN relocations
                     ELSE Append(relocations, <<Len(bytes), items[1].toks[1]>>))
    IN  [b \in 1..n |-> lay(OfBlock(b - 1), <<>>, <<>>)]

\* the blocks a heap holds
held_blocks(h) ==
    [b \in 1..Len(h.blocks) |->
        [bytes |-> h.blocks[b].writer.inner, relocations |-> h.blocks[b].relocations]]

\* the stand-in heaps remove_heap left behind for the heaps that inner
\* contexts hold at the moment
stand_ins ==
    {default_heap : k \in {k \in 1..Depth : inner[k].default_category = DefaultCat}}
    \cup {heaps[i].value : i \in {i \in 1..Len(heaps) :
             \E k \in 1..Depth : inner[k].default_category = heaps[i].key}}
    \cup {inner[k].default_heap : k \in {k \in 1..Depth :
             \E j \in (k + 1)..Depth :
                 inner[j].default_category = inner[k].default_category}}

\* C3: at every moment, and so whenever an inner context has been released
\* after its callback returned Ok or Err, the heap found under each category
\* holds exactly the bytes and relocations written to that category, and the
\* stand-in heaps hold nothing.
C3_NothingLost ==
    /\ \A c \in AllCats : held_blocks(heap_of(Ctx, c)) = logged_blocks(hist.written[c])
    /\ \A h \in stand_ins : h = NewWriteHeap

\* an inner context nested in another one of the same category was
\* released after its callback failed, with a byte written through it
C3_Witness ==
    /\ last.op = "callback_err"
    /\ last.depth = 2
    /\ inner[1].default_category = last.cat
    /\ Len(heap_of(Ctx, last.cat).blocks) = 3
    /\ heap_of(Ctx, last.cat).blocks[3].writer.inner # <<>>

\* ------------------------------------------------------------------- C4
\* C4: the id heap_id_of gave a category the first time is the number of
\* categories used before it, heap_id_of gives the same id now, and every
\* token minted for the category carries it.
C4_StableIds ==
    \A c \in AllCats :
        hist.firstId[c] # <<>> =>
            /\ hist.firstId[c][1] = hist.firstId[c][2]
            /\ inner_heap_id_of(Ctx, Depth, c).id = hist.firstId[c][1]
            /\ \A m \in hist.minted : m.cat = c => m.tok.heap_id = hist.firstId[c][1]

\* ------------------------------------------------------------------- C5
\* C5: after assembly, apply_reference was called exactly once at the
\* placeholder of every relocation, and the placeholder decodes to the
\* final absolute offset of its token.
C5_EveryRelocationResolvedOnce ==
    pc = "done" =>
        \A r \in hist.relocs :
            LET p == abs_offset(r.cat, r.blk, r.pos)
            IN  /\ times_applied(p) = 1
                /\ read_relative_ptr(result.out, p) =
                       abs_offset(r.m.cat, r.m.tok.block_id, r.m.tok.offset)

\* ------------------------------------------------------------------- C6
\* C6: when a heap's pending list is not empty at the end of its assembly,
\* to_buffer returns the UnresolvedRelocation error.
C6_ResidueIsAnError ==
    pc = "done" =>
        ((\E i \in 1..Len(result.residue) : result.residue[i] # <<>>)
            => result.status = "UnresolvedRelocation")

\* ------------------------------------------------------------------- C7
\* C7: the placeholder of a token of another heap is patched, once, with
\* the final absolute offset of the token's block in that other heap.
C7_CrossHeapPatched ==
    pc = "done" =>
        \A r \in hist.relocs :
            r.m.cat # r.cat =>
                LET p == abs_offset(r.cat, r.blk, r.pos)
                    target == abs_offset(r.m.cat, r.m.tok.block_id, r.m.tok.offset)
                IN  \E i \in 1..Len(result.applied) : result.applied[i] = <<p, target>>

\* ------------------------------------------------------------------- C8
\* the relocations the caller of an allocation wrote for the token it got
\* back, into the block of the same heap it was writing when it made the
\* call, where the callback wrote at least one byte
caller_relocs ==
    {r \in hist.relocs :
        /\ r.m.kind = "alloc"
        /\ r.m.cat = r.cat
        /\ r.blk + 1 = r.m.tok.block_id
        /\ r.m.first # -1}

\* C8: after assembly such a placeholder was patched once and decodes to
\* the absolute offset of the first byte the callback wrote.
C8_TokenStability ==
    pc = "done" =>
        \A r \in caller_relocs :
            LET p == abs_offset(r.cat, r.blk, r.pos)
            IN  /\ times_applied(p) = 1
                /\ read_relative_ptr(result.out, p) =
                       abs_offset(r.cat, r.m.tok.block_id, r.m.first)

\* the allocation re-entered a block that held bytes, and was assembled
C8_Witness ==
    /\ pc = "done"
    /\ \E r \in caller_relocs : r.m.first > 0

\* ------------------------------------------------------------------- C9
\* C9: after assembly, resolve of every minted token on the block-offsets
\* list is the absolute offset of the byte position it was minted at.
C9_ResolveAfterAssembly ==
    pc = "done" =>
        \A m \in hist.minted :
            resolve(m.tok, result.block_offsets)
                = <<abs_offset(m.cat, m.tok.block_id, Len(m.held))>>

\* ------------------------------------------------------------------ C10
\* C10: in every state, so after any sequence of writes, write_token calls
\* and allocations, every minted token names a block of its heap and an
\* offset within that block's bytes, and the bytes the block held when the
\* token was minted are still there, in place.
C10_TokensStayValid ==
    \A m \in hist.minted :
        LET h == heap_of(Ctx, m.cat)
            now == block_bytes(h, m.tok.block_id)
        IN  /\ m.tok.block_id + 1 <= Len(h.blocks)
            /\ m.tok.offset <= Len(now)
            /\ Len(m.held) <= Len(now)
            /\ SubSeq(now, 1, Len(m.held)) = m.held

\* a token was minted in a block that has grown since and is no longer the
\* last block of its heap
C10_Witness ==
    \E m \in hist.minted :
        /\ Len(block_bytes(heap_of(Ctx, m.cat), m.tok.block_id)) > m.tok.offset
        /\ Len(heap_of(Ctx, m.cat).blocks) > m.tok.block_id + 1

\* ------------------------------------------------------------------ C11
\* every heap of the context: the default heap, the heaps of the map, and
\* the heaps the inner contexts hold
all_heaps ==
    {default_heap}
    \cup {heaps[i].value : i \in 1..Len(heaps)}
    \cup {inner[k].default_heap : k \in 1..Depth}

\* C11: in every state, after a failed callback too, every heap, the
\* stand-ins left in a parent included, has at least one block and its
\* current_block is an index into blocks.
C11_HeapsWellFormed ==
    \A h \in all_heaps \cup stand_ins :
        /\ Len(h.blocks) >= 1
        /\ h.current_block >= 0
        /\ h.current_block + 1 <= Len(h.blocks)

\* a callback failed inside a nested call: the failed call's heap is back
\* in the outer inner context, whose own stand-in is still in the parent
C11_Witness ==
    /\ pc = "failed"
    /\ Depth = 1
    /\ stand_ins # {}
    /\ \E h \in all_heaps : Len(h.blocks) >= 2 /\ h.current_block >= 1

\* ------------------------------------------------------------------ C12
RECURSIVE flatten(_)
\* the concatenation of the bytes of a sequence of blocks
flatten(blocks) ==
    IF blocks = <<>> THEN <<>>
    ELSE blocks[1].bytes \o flatten(Tail(blocks))

\* the bytes written to category c, block by block
bytes_of(c) == flatten(logged_blocks(hist.written[c]))

RECURSIVE in_category_order(_)
\* the bytes written to the categories in S, lowest category first
in_category_order(S) ==
    IF S = {} THEN <<>>
    ELSE LET c == CHOOSE c \in S : \A d \in S : c <= d
         IN  bytes_of(c) \o in_category_order(S \ {c})

\* C12: the assembled output is the bytes of the heaps in the order of
\* their category values, the default heap where the default category
\* sorts, whatever the order in which the categories were first used.
C12_CategoryOrder ==
    pc = "done" => result.out = in_category_order(AllCats)

\* categories 0 < 2 hold different bytes, 2 was used first, the default
\* heap is empty, and the context was assembled
C12_Witness ==
    /\ pc = "done"
    /\ bytes_of(DefaultCat) = <<>>
    /\ bytes_of(0) # <<>>
    /\ bytes_of(2) # <<>>
    /\ bytes_of(0)[1] # bytes_of(2)[1]
    /\ index_of(heaps, 2) # 0
    /\ index_of(heaps, 0) # 0
    /\ index_of(heaps, 2) < index_of(heaps, 0)
    /\ result.out = bytes_of(0) \o bytes_of(2)

\* ------------------------------------------------------------------ C13
RECURSIVE block_starts(_)
\* the absolute start offsets of the blocks of the heaps of the categories
\* in S, lowest category first and, within a heap, in block order
block_starts(S) ==
    IF S = {} THEN <<>>
    ELSE LET c == CHOOSE c \in S : \A d \in S : c <= d
         IN  [b \in 1..Len(final_heap(c).blocks) |-> abs_offset(c, b - 1, 0)]
             \o block_starts(S \ {c})

\* C13: the block-offsets list to_buffer fills has one entry per block, the
\* i-th being the absolute start offset of the i-th block in category order
\* and block order, and it is non-decreasing.
C13_BlockOffsets ==
    pc = "done" =>
        /\ result.block_offsets = block_starts(final_cats)
        /\ \A i \in 1..(Len(result.block_offsets) - 1) :
               result.block_offsets[i] <= result.block_offsets[i + 1]

\* two heaps with three or more blocks between them were assembled, and a
\* block of the second heap starts past offset 0
C13_Witness ==
    /\ pc = "done"
    /\ index_of(heaps, 0) # 0
    /\ Len(final_heap(0).blocks) >= 2
    /\ Len(default_heap.blocks) >= 2
    /\ abs_offset(DefaultCat, 0, 0) > 0
    /\ abs_offset(DefaultCat, 1, 0) > abs_offset(DefaultCat, 0, 0)

\* ------------------------------------------------------------------ C14
\* C14: a context that never received a write assembles to no bytes and
\* to an empty block-offsets list.
C14_EmptyContext ==
    (pc = "done" /\ \A c \in AllCats : hist.written[c] = <<>>) =>
        /\ result.out = <<>>
        /\ result.block_offsets = <<>>

\* ------------------------------------------------------------ read side
\* A client reads an input through the domain: words, boxes (whose
\* read_content it runs on the same reader), seeks, and errors it returns
\* or handles.
MaxReadOps == 5

\* the inputs: a chain of pointers that ends in null; a pointer to a word
\* whose sum with its position leaves 32 bits; a word whose sum with its
\* position is 2^32; pointers to the end of the input and to an odd offset
Inputs ==
    { <<4, 0, 0, 0, 4, 0, 0, 0, 0, 0, 0, 0>>,
      <<4, 0, 0, 0, 255, 255, 255, 255>>,
      <<0, 0, 0, 0, 252, 255, 255, 255>>,
      <<8, 0, 0, 0, 1, 0, 0, 0>> }

\* the positions a client seeks to
SeekTo == {0, 4}

InitRead ==
    /\ InitCtx
    /\ al = NoAlign
    /\ fx = NoCall
    /\ \E bytes \in Inputs, build \in Builds :
          reader = [cursor |-> set_position(write_all(NewWriter, bytes), 0),
                    guards |-> <<>>, mode |-> "run", error |-> NoError,
                    build |-> build]
    /\ rhist = NoReads

ctx_vars == <<default_heap, heaps, inner, calls, pc, result, hist, last, al, fx>>

\* rhist after one more call by the client
note_read(h, l) == [h EXCEPT !.ops = @ + 1, !.last = l]

\* u32::from_reader(reader, domain)
ReadU32 ==
    /\ reader.mode = "run"
    /\ rhist.ops < MaxReadOps
    /\ LET r == u32_from_reader(reader.cursor)
       IN  /\ reader' = IF r.ok THEN [reader EXCEPT !.cursor = r.cursor]
                        ELSE [reader EXCEPT !.cursor = r.cursor, !.mode = "err",
                                            !.error = [kind |-> "io"]]
           /\ rhist' = note_read(rhist, [op |-> "read_u32"])
    /\ UNCHANGED ctx_vars

\* reader.set_position(p)
SetPosition(p) ==
    /\ reader.mode = "run"
    /\ rhist.ops < MaxReadOps
    /\ reader' = [reader EXCEPT !.cursor = set_position(@, p)]
    /\ rhist' = note_read(rhist, [op |-> "set_position"])
    /\ UNCHANGED ctx_vars

\* what a box call leaves in rhist: the field it read and, when it made a
\* guard, the position the reader had then
note_box(h, op, r, before) ==
    [note_read(h, [op |-> op, outcome |-> r.outcome,
                   field |-> position(before.cursor)])
        EXCEPT !.made = IF r.outcome = "jump"
                        THEN Append(@, [pos |-> position(before.cursor) + 4,
                                        field |-> position(before.cursor)])
                        ELSE @]

\* domain.read_box_nullable(reader, read_content), to where read_content
\* runs or the call returns without it
ReadBoxNullable ==
    /\ reader.mode = "run"
    /\ rhist.ops < MaxReadOps
    /\ LET r == read_box_nullable(reader)
       IN  /\ reader' = r.rd
           /\ rhist' = note_box(rhist, "read_box_nullable", r, reader)
    /\ UNCHANGED ctx_vars

\* domain.read_box(reader, read_content), likewise
ReadBox ==
    /\ reader.mode = "run"
    /\ rhist.ops < MaxReadOps
    /\ LET r == read_box(reader)
       IN  /\ reader' = r.rd
           /\ rhist' = note_box(rhist, "read_box", r, reader)
    /\ UNCHANGED ctx_vars

\* rhist after the innermost guard was dropped
note_release(h, how) ==
    LET n == Len(h.made)
    IN  [h EXCEPT !.made = SubSeq(@, 1, n - 1),
                  !.last = [op |-> "release", how |-> how, made |-> h.made[n]]]

\* read_content returns Ok: Ok(Some(read_content(reader)?)) is returned
\* and the guard dropped
ReturnOk ==
    /\ reader.mode = "run"
    /\ Len(reader.guards) > 0
    /\ reader' = release(reader)
    /\ rhist' = note_release(rhist, "ok")
    /\ UNCHANGED ctx_vars

\* read_content returns Err, its own or one that reached it: the ? returns
\* it and the guard is dropped
ReturnErr ==
    /\ reader.mode \in {"run", "err"}
    /\ Len(reader.guards) > 0
    /\ reader' = [release(reader) EXCEPT
                     !.mode = "err",
                     !.error = IF reader.mode = "err" THEN @
                               ELSE [kind |-> "read_content"]]
    /\ rhist' = note_release(rhist, "err")
    /\ UNCHANGED ctx_vars

\* a panic unwinds through a read_box_nullable: its guard is dropped
Unwind ==
    /\ reader.mode = "panic"
    /\ Len(reader.guards) > 0
    /\ reader' = release(reader)
    /\ rhist' = note_release(rhist, "unwind")
    /\ UNCHANGED ctx_vars

\* the caller an Err reached keeps it and reads on
Handle ==
    /\ reader.mode = "err"
    /\ rhist.ops < MaxReadOps
    /\ reader' = [reader EXCEPT !.mode = "run", !.error = NoError]
    /\ rhist' = note_read(rhist, [op |-> "handle"])
    /\ UNCHANGED ctx_vars

NextRead ==
    \/ ReadU32
    \/ \E p \in SeekTo : SetPosition(p)
    \/ ReadBoxNullable
    \/ ReadBox
    \/ ReturnOk
    \/ ReturnErr
    \/ Unwind
    \/ Handle

SpecRead == InitRead /\ [][NextRead]_vars

\* ------------------------------------------------------------------ C16
\* C16: when a SeekGuard is released, by success, by an error propagating
\* past it or by a panic, the reader stands where it stood when that guard
\* was made; nested guards are released innermost first, each to its own
\* position.
C16_SeekRestoration ==
    /\ Len(rhist.made) = Len(reader.guards)
    /\ rhist.last.op = "release" =>
          position(reader.cursor) = rhist.last.made.pos

\* of two guards made at different positions, one inside the other, the
\* inner one was released by an error and the outer one is still alive
C16_Witness ==
    /\ rhist.last.op = "release"
    /\ rhist.last.how = "err"
    /\ Len(reader.guards) = 1
    /\ rhist.last.made.pos # rhist.made[1].pos

\* the pointer word of the field the last box call read, <<>> when the
\* input ends before the word does
word_read ==
    LET f == rhist.last.field
        bytes == reader.cursor.inner
    IN  IF f <= Len(bytes) /\ 4 <= Len(bytes) - f
        THEN SubSeq(bytes, f + 1, f + 4) ELSE <<>>

\* ------------------------------------------------------------------ C17
\* C17: read_box on a pointer word of zero fails with the unexpected-null
\* error, which reports the position the reader had before the word was
\* read; read_content is not called.
C17_NullWhereRequired ==
    (rhist.last.op = "read_box" /\ word_read = <<0, 0, 0, 0>>) =>
        /\ reader.mode = "err"
        /\ reader.error = [kind |-> "null", offset |-> rhist.last.field]
        /\ rhist.last.outcome # "jump"
        /\ Len(reader.guards) = Len(rhist.made)

\* read_box met a zero word past the start of the input, inside the
\* read_content of another box
C17_Witness ==
    /\ rhist.last.op = "read_box"
    /\ word_read = <<0, 0, 0, 0>>
    /\ rhist.last.field > 0
    /\ Len(reader.guards) > 0

\* ------------------------------------------------------------------ C18
\* C18: read_box_nullable decodes one pointer word. A null word: it returns
\* None, read_content is not called and the reader stands one word past the
\* field. Any other word: a guard is made, the reader jumps to the target,
\* the field's offset plus the word, and read_content runs; when it has
\* returned, the reader stands one word past the field.
C18_ReadBoxNullable ==
    /\ (rhist.last.op = "read_box_nullable" /\ word_read # <<>>) =>
          IF word_read = <<0, 0, 0, 0>>
          THEN /\ rhist.last.outcome = "None"
               /\ reader.mode = "run"
               /\ position(reader.cursor) = rhist.last.field + 4
          ELSE /\ rhist.last.outcome = "jump"
               /\ reader.mode = "run"
               /\ Len(reader.guards) > 0
               /\ reader.guards[Len(reader.guards)].start_pos = rhist.last.field + 4
               /\ LET target == u32_add(to_le_bytes(rhist.last.field), word_read)
                  IN  /\ ~target.overflow
                      /\ position(reader.cursor) = pointer_value(target.bytes)
    /\ rhist.last.op = "release" =>
          position(reader.cursor) = rhist.last.made.field + 4

\* ------------------------------------------------------------------ C19
\* align_to on a bare writer: the writer holds some bytes and stands at or
\* before their end, the alignment is any usize of AlignTo
MaxAlignPos == 6
AlignTo == {0, 1, 2, 3, 4, 8, 16, 128, 129, 130, 256}

InitAlign ==
    /\ InitCtx
    /\ fx = NoCall
    /\ reader = NoReader
    /\ rhist = NoReads
    /\ \E n \in 0..MaxAlignPos, p \in 0..MaxAlignPos, a \in AlignTo :
          /\ p <= n
          /\ al = [writer |-> set_position(write_all(NewWriter, [i \in 1..n |-> 7]), p),
                   alignment |-> a, out |-> "none", before |-> NewWriter]

\* align_to(&mut writer, alignment)
AlignTo_call ==
    /\ al.out = "none"
    /\ al' = IF align_to_panics(al.writer, al.alignment)
             THEN [al EXCEPT !.out = "panic"]
             ELSE [al EXCEPT !.out = "ok", !.before = al.writer,
                             !.writer = align_to(al.writer, al.alignment)]
    /\ UNCHANGED <<default_heap, heaps, inner, calls, pc, result, hist, last,
                   reader, rhist, fx>>

NextAlign == AlignTo_call
SpecAlign == InitAlign /\ [][NextAlign]_vars

\* C19: for every alignment A > 0 and every position, align_to(A) succeeds
\* and leaves the position a multiple of A, having emitted only zero bytes
\* and fewer than A of them; align_to(0) leaves the writer unchanged.
C19_AlignTo ==
    al.out # "none" =>
        /\ al.out = "ok"
        /\ LET p == position(al.before)
               q == position(al.writer)
           IN  IF al.alignment = 0 THEN al.writer = al.before
               ELSE /\ q % al.alignment = 0
                    /\ q >= p
                    /\ q - p < al.alignment
                    /\ \A i \in (p + 1)..q : al.writer.inner[i] = 0
                    /\ \A i \in 1..p : al.writer.inner[i] = al.before.inner[i]

\* ------------------------------------------------------------------ C20
\* C20: write_token::<N>(token) leaves everything as it was but the current
\* block of the heap it writes: that block has one more relocation, (p,
\* token) with p its position before the call, N more bytes, all zero, and
\* its position is p + N; current_block is unchanged.
C20_WriteTokenFrame ==
    last.op = "write_token" =>
        LET at == deref_mut(last.pre, Len(last.pre.inner))
            old == heap_at(last.pre, at)
            new == heap_at(Ctx, at)
            ob == old.blocks[old.current_block + 1]
            nb == new.blocks[old.current_block + 1]
            p == position(ob.writer)
        IN  /\ Len(inner) = Len(last.pre.inner)
            /\ new.current_block = old.current_block
            /\ Len(new.blocks) = Len(old.blocks)
            /\ \A b \in 1..Len(old.blocks) :
                  b # old.current_block + 1 => new.blocks[b] = old.blocks[b]
            /\ nb.relocations = Append(ob.relocations, <<p, last.token>>)
            /\ nb.writer.inner = ob.writer.inner \o [i \in 1..BYTE_SIZE |-> 0]
            /\ position(nb.writer) = p + BYTE_SIZE
            /\ default_heap = (IF at = <<"default_heap">> THEN new ELSE last.pre.default_heap)
            /\ heaps = last.pre.heaps
            /\ \A k \in 1..Len(inner) :
                  /\ inner[k].default_category = last.pre.inner[k].default_category
                  /\ at # <<"inner", k>> => inner[k] = last.pre.inner[k]

\* a token was written into a block that already held bytes and a
\* relocation, in a heap with other blocks, held by an inner context
C20_Witness ==
    /\ last.op = "write_token"
    /\ Depth >= 1
    /\ LET old == heap_at(last.pre, deref_mut(last.pre, Len(last.pre.inner)))
       IN  /\ position(cur_writer(old)) > 0
           /\ Len(old.blocks) >= 2

\* ------------------------------------------------------------------ C21
\* the heap an allocation moved, as it is once the callback is entered
entered_heap == inner[Depth].default_heap

\* seek_to_new_block on a heap by itself: the heap has up to MaxSeekBlocks
\* blocks of up to MaxSeekLen bytes, any of them current
MaxSeekBlocks == 3
MaxSeekLen == 2
SeekAlignments == {0, 2, 130}

SeekBlocks ==
    {[relocations |-> <<>>, writer |-> write_all(NewWriter, [i \in 1..n |-> 7])] :
        n \in 0..MaxSeekLen}
      \cup {[relocations |-> <<<<0, [heap_id |-> 0, block_id |-> 0, offset |-> 0]>>>>,
              writer |-> write_all(NewWriter, Zeroes(BYTE_SIZE))]}

SeekHeaps ==
    UNION {{[current_block |-> c, blocks |-> bs] :
                c \in 0..(n - 1), bs \in [1..n -> SeekBlocks]} :
           n \in 1..MaxSeekBlocks}

InitSeek ==
    /\ default_heap \in SeekHeaps
    /\ InitRest
    /\ reader = NoReader
    /\ rhist = NoReads
    /\ fx = NoCall
    /\ \E a \in SeekAlignments : al = [NoAlign EXCEPT !.alignment = a]

\* heap.seek_to_new_block(alignment, 0); the align_to of the second branch
\* may panic, after current_block was advanced
SeekToNewBlock ==
    /\ last.op = "new"
    /\ LET h == default_heap
           moved == [h EXCEPT !.current_block = @ + 1]
       IN  IF /\ h.current_block # Len(h.blocks) - 1
              /\ align_to_panics(cur_writer(moved), al.alignment)
           THEN /\ default_heap' = moved
                /\ last' = [op |-> "seek_to_new_block", out |-> "panic", before |-> h]
           ELSE LET r == seek_to_new_block(h, al.alignment, 0)
                IN  /\ default_heap' = r.heap
                    /\ last' = [op |-> "seek_to_new_block", out |-> "ok",
                                before |-> h, token |-> r.token]
    /\ UNCHANGED <<heaps, inner, calls, pc, result, hist, reader, rhist, al, fx>>

NextSeek == SeekToNewBlock
SpecSeek == InitSeek /\ [][NextSeek]_vars

\* C21: seek_to_new_block on the last block appends one empty block and
\* makes it current; otherwise current_block advances by one, no block is
\* appended, and the block advanced to is padded with zero bytes from its
\* end to the alignment. No byte or relocation of any block is replaced or
\* removed.
C21_SeekToNewBlock ==
    last.op = "seek_to_new_block" =>
        LET old == last.before
            new == default_heap
            n == Len(old.blocks)
        IN  /\ last.out = "ok"
            /\ IF old.current_block = n - 1
               THEN /\ new.blocks = Append(old.blocks, NewHeapBlock)
                    /\ new.current_block = n
               ELSE LET b == old.current_block + 2
                        was == old.blocks[b].writer.inner
                        is == new.blocks[b].writer.inner
                    IN  /\ new.current_block = old.current_block + 1
                        /\ Len(new.blocks) = n
                        /\ \A i \in 1..n : i # b => new.blocks[i] = old.blocks[i]
                        /\ new.blocks[b].relocations = old.blocks[b].relocations
                        /\ Len(is) >= Len(was)
                        /\ SubSeq(is, 1, Len(was)) = was
                        /\ \A i \in (Len(was) + 1)..Len(is) : is[i] = 0
                        /\ IF al.alignment = 0 THEN is = was
                           ELSE /\ Len(is) % al.alignment = 0
                                /\ Len(is) - Len(was) < al.alignment

C23_NestedAllocation ==
    \A m \in hist.minted :
        (m.kind = "alloc" /\ m.under # <<>>) =>
            /\ m.tok.block_id # m.under[1].block_id
            /\ m.tok.block_id = m.under[1].block_id + 1
            /\ pc = "done" =>
                  LET start == abs_offset(m.cat, m.tok.block_id, 0)
                      r == resolve(m.tok, result.block_offsets)
                  IN  /\ r # <<>>
                      /\ r[1] >= start
                      /\ r[1] <= start + Len(block_bytes(final_heap(m.cat),
                                                         m.tok.block_id))

\* ------------------------------------------------------------------ C24
\* three tokens compared with each other; ids and offsets up to the bounds
MaxTokenBlock == 2
MaxTokenOffset == 2

Tokens ==
    [heap_id : {0, 1}, block_id : 0..MaxTokenBlock, offset : 0..MaxTokenOffset]

InitCmp ==
    /\ InitCtx
    /\ reader = NoReader
    /\ rhist = NoReads
    /\ al = NoAlign
    /\ \E a \in Tokens, b \in Tokens, c \in Tokens :
          fx = [op |-> "tokens", a |-> a, b |-> b, c |-> c]

\* a.cmp(&b), b.cmp(&a), b.cmp(&c), a.cmp(&c), a == b
Cmp ==
    /\ fx.op = "tokens"
    /\ fx' = [op |-> "cmp", a |-> fx.a, b |-> fx.b, c |-> fx.c,
              eq |-> eq(fx.a, fx.b),
              ab |-> cmp(fx.a, fx.b), ba |-> cmp(fx.b, fx.a),
              bc |-> cmp(fx.b, fx.c), ac |-> cmp(fx.a, fx.c)]
    /\ UNCHANGED <<default_heap, heaps, inner, calls, pc, result, hist, last,
                   reader, rhist, al>>

NextCmp == Cmp
SpecCmp == InitCmp /\ [][NextCmp]_vars

\* C24: tokens compare by block_id first and by offset among equal block
\* ids, and the comparison is a total order on (block_id, offset): any two
\* pairs are comparable, they compare equal only when they are the same
\* pair, a.cmp(b) is the reverse of b.cmp(a), and Less is transitive.
C24_TokenOrder ==
    fx.op = "cmp" =>
        LET a == fx.a
            b == fx.b
            lex == IF a.block_id < b.block_id THEN "Less"
                   ELSE IF a.block_id > b.block_id THEN "Greater"
                   ELSE IF a.offset < b.offset THEN "Less"
                   ELSE IF a.offset > b.offset THEN "Greater"
                   ELSE "Equal"
        IN  /\ fx.ab = lex
            /\ fx.ab \in {"Less", "Equal", "Greater"}
            /\ fx.ab = "Equal" <=> <<a.block_id, a.offset>> = <<b.block_id, b.offset>>
            /\ fx.ab = "Less" <=> fx.ba = "Greater"
            /\ fx.ab = "Equal" <=> fx.ba = "Equal"
            /\ (fx.ab = "Less" /\ fx.bc = "Less") => fx.ac = "Less"
            /\ (fx.ab # "Greater" /\ fx.bc # "Greater") => fx.ac # "Greater"

\* a token of a lower block and a higher offset was compared with one of a
\* higher block and a lower offset, and that one with a third
C24_Witness ==
    /\ fx.op = "cmp"
    /\ fx.a.block_id < fx.b.block_id
    /\ fx.a.offset > fx.b.offset
    /\ fx.bc = "Less"

\* ------------------------------------------------------------------ C25
\* a pointer to target T written at field position P and read back: P up to
\* MaxFieldPos, T any u32 with bytes of PtrBytes that is greater than P
MaxFieldPos == 5
PtrBytes == {0, 1, 255}

\* the u32 with little-endian bytes t is greater than the small number p
u32_above(t, p) == t[4] > 0 \/ low_bytes(t, 3) > p

InitPtr ==
    /\ InitCtx
    /\ reader = NoReader
    /\ rhist = NoReads
    /\ al = NoAlign
    /\ \E P \in 0..MaxFieldPos, T \in [1..4 -> PtrBytes], build \in Builds :
          /\ u32_above(T, P)
          /\ fx = [op |-> "pointer", P |-> P, T |-> T, build |-> build]

\* write_relative_ptr(writer, T) with the writer at P, then
\* read_relative_ptr with a reader at P over what was written, and over a
\* zero word
WriteReadPtr ==
    /\ fx.op = "pointer"
    /\ LET field == write_all(NewWriter, [i \in 1..fx.P |-> 7])
           w == write_relative_ptr(field, fx.T)
           r == reader_read_relative_ptr(set_position(w, fx.P), fx.build)
           z == reader_read_relative_ptr(
                    set_position(write_all(field, <<0, 0, 0, 0>>), fx.P), fx.build)
       IN  fx' = [op |-> "pointer_read", P |-> fx.P, T |-> fx.T, build |-> fx.build,
                  written |-> w, read |-> r, zero |-> z]
    /\ UNCHANGED <<default_heap, heaps, inner, calls, pc, result, hist, last,
                   reader, rhist, al>>

NextPtr == WriteReadPtr
SpecPtr == InitPtr /\ [][NextPtr]_vars

\* C25: a pointer to T written at P stores the four little-endian bytes of
\* T - P after the P bytes before the field; read at P they decode to T,
\* for every T > P within 32 bits; a stored zero decodes as null.
C25_RelativePointer ==
    fx.op = "pointer_read" =>
        LET low == low_bytes(fx.T, 3)
            borrow == IF low < fx.P THEN 1 ELSE 0
            rel_low == low - fx.P + borrow * 16777216
            rel_top == fx.T[4] - borrow
            stored == SubSeq(fx.written.inner, fx.P + 1, fx.P + 4)
        IN  /\ Len(fx.written.inner) = fx.P + 4
            /\ position(fx.written) = fx.P + 4
            /\ \A i \in 1..fx.P : fx.written.inner[i] = 7
            /\ low_bytes(stored, 3) = rel_low
            /\ stored[4] = rel_top
            /\ stored # <<0, 0, 0, 0>>
            /\ fx.read.kind = "ok"
            /\ fx.read.ptr = fx.T
            /\ position(fx.read.cursor) = fx.P + 4
            /\ fx.zero.kind = "ok"
            /\ fx.zero.ptr = <<0, 0, 0, 0>>

\* the target is past 2^31 and its low byte is below the field position, so
\* the subtraction borrows from the higher bytes
C25_Witness ==
    /\ fx.op = "pointer_read"
    /\ fx.T[4] = 255
    /\ fx.T[1] < fx.P
    /\ fx.T[2] = 0

\* ------------------------------------------------------------------ C26
\* the relocations write_box_of wrote
box_relocs == {r \in hist.relocs : r.box}

\* C26: after assembly, the pointer field write_box_of wrote decodes, with
\* the driver that wrote it, to the absolute offset of the target: the
\* start of the token's block plus its local offset; and the bytes of the
\* sub-record stand there to be read back.
C26_PointerRoundTrip ==
    (pc = "done" /\ result.status = "Ok") =>
        \A r \in box_relocs :
            LET p == abs_offset(r.cat, r.blk, r.pos)
                target == abs_offset(r.m.cat, r.m.tok.block_id, r.m.tok.offset)
                decoded == read_relative_ptr(result.out, p)
            IN  /\ decoded = target
                /\ \A i \in 1..Len(r.m.content) :
                      r.m.content[i] # 0 => result.out[decoded + i] = r.m.content[i]

\* ------------------------------------------------------------------ C29
\* records of one or two numbers written and read back, and records of
\* three floats read from given bytes and written back
NumBytes == {0, 1, 255}
ByteSizes == {1, 2, 4, 8}

Numbers == UNION {[1..k -> NumBytes] : k \in {1, 2, 4}} \cup [1..8 -> {0, 255}]
SecondFields == {<<>>} \cup {<<v>> : v \in [1..1 -> NumBytes] \cup [1..2 -> {1, 255}]}

\* the twelve bytes of scenario S1 as the specification lists them, and the
\* position bytes of main's BYTES
S1Bytes == <<63, 128, 0, 0, 64, 0, 0, 0, 63, 0, 0, 0>>
SampleVec3 == <<0, 0, 128, 63, 0, 0, 0, 64, 0, 0, 0, 63>>

InitNum ==
    /\ InitCtx
    /\ reader = NoReader
    /\ rhist = NoReads
    /\ al = NoAlign
    /\ \/ \E v \in Numbers, more \in SecondFields, e \in Endiannesses, at \in 0..1 :
            fx = [op |-> "fields", fields |-> <<v>> \o more, endianness |-> e,
                  at |-> at]
       \/ \E bytes \in {S1Bytes, SampleVec3}, e \in Endiannesses :
            fx = [op |-> "bytes", bytes |-> bytes, endianness |-> e]

\* every field's to_writer on a writer at position at, then every field's
\* from_reader on a reader over what was written, from position at
WriteReadRecord ==
    /\ fx.op = "fields"
    /\ LET sizes == [i \in 1..Len(fx.fields) |-> Len(fx.fields[i])]
           w0 == write_all(NewWriter, [i \in 1..fx.at |-> 7])
           w == record_to_writer(w0, fx.fields, fx.endianness)
           r == record_from_reader(set_position(w, fx.at), sizes, fx.endianness)
       IN  fx' = [op |-> "fields_read", fields |-> fx.fields,
                  endianness |-> fx.endianness, at |-> fx.at,
                  written |-> w, read |-> r]
    /\ UNCHANGED <<default_heap, heaps, inner, calls, pc, result, hist, last,
                   reader, rhist, al>>

\* Vec3::from_reader on a reader over the bytes, then Vec3::to_writer of the
\* value read
ReadWriteVec3 ==
    /\ fx.op = "bytes"
    /\ LET r == record_from_reader(set_position(write_all(NewWriter, fx.bytes), 0),
                                   <<4, 4, 4>>, fx.endianness)
           w == record_to_writer(NewWriter, r.value, fx.endianness)
       IN  fx' = [op |-> "bytes_written", bytes |-> fx.bytes,
                  endianness |-> fx.endianness, read |-> r, written |-> w]
    /\ UNCHANGED <<default_heap, heaps, inner, calls, pc, result, hist, last,
                   reader, rhist, al>>

NextNum == WriteReadRecord \/ ReadWriteVec3
SpecNum == InitNum /\ [][NextNum]_vars

\* C29: a number of K bytes is written as exactly K bytes, least
\* significant first under a little-endian domain and most significant
\* first under a big-endian one; read with the same endianness it is the
\* same number and the reader has advanced by K; a record of such fields
\* reads back field for field.
C29_PrimitiveRoundTrip ==
    fx.op = "fields_read" =>
        LET v == fx.fields[1]
            K == Len(v)
            bytes == fx.written.inner
            total == Len(v) + (IF Len(fx.fields) = 2 THEN Len(fx.fields[2]) ELSE 0)
        IN  /\ K \in ByteSizes
            /\ Len(bytes) = fx.at + total
            /\ \A j \in 1..K :
                  bytes[fx.at + j] =
                      IF fx.endianness = "Little" THEN v[K + 1 - j] ELSE v[j]
            /\ fx.read.ok
            /\ fx.read.value = fx.fields
            /\ position(fx.read.cursor) = fx.at + total

\* an 8-byte number whose two ends differ, and a 2-byte one after it, went
\* through a big-endian domain from a position other than 0
C29_Witness ==
    /\ fx.op = "fields_read"
    /\ fx.endianness = "Big"
    /\ fx.at = 1
    /\ Len(fx.fields) = 2
    /\ Len(fx.fields[1]) = 8
    /\ fx.fields[1][1] # fx.fields[1][8]
    /\ Len(fx.fields[2]) = 2
    /\ fx.fields[2][1] # fx.fields[2][2]

\* ------------------------------------------------------------------ C30
\* C30 as claimed: under the little-endian domain the bytes 3F 80 00 00 40
\* 00 00 00 3F 00 00 00 read as the floats with the bit patterns 0x3F800000,
\* 0x40000000 and 0x3F000000, and the value written back is those bytes.
C30_S1AsListed ==
    (fx.op = "bytes_written" /\ fx.endianness = "Little" /\ fx.bytes = S1Bytes) =>
        /\ fx.read.ok
        /\ fx.read.value = <<<<63, 128, 0, 0>>, <<64, 0, 0, 0>>, <<63, 0, 0, 0>>>>
        /\ fx.written.inner = fx.bytes

\* C30 as the code has it: under the little-endian domain it is the bytes
\* 00 00 80 3F 00 00 00 40 00 00 00 3F, the position of main's BYTES, that
\* read as 0x3F800000, 0x40000000 and 0x3F000000; the bytes as listed read
\* so under a big-endian domain; either way the value written back is the
\* bytes read.
C30_S1LittleEndian ==
    fx.op = "bytes_written" =>
        /\ fx.read.ok
        /\ position(fx.read.cursor) = 12
        /\ fx.written.inner = fx.bytes
        /\ (fx.read.value = <<<<63, 128, 0, 0>>, <<64, 0, 0, 0>>, <<63, 0, 0, 0>>>>)
              <=> \/ fx.endianness = "Little" /\ fx.bytes = SampleVec3
                  \/ fx.endianness = "Big" /\ fx.bytes = S1Bytes

\* the position bytes of the sample were read under the little-endian
\* domain and written back
C30_Witness ==
    /\ fx.op = "bytes_written"
    /\ fx.endianness = "Little"
    /\ fx.bytes = SampleVec3
    /\ fx.written.inner = SampleVec3

\* ------------------------------------------------------------------ C28
\* strings written with write_c_str and read back, and byte streams read
\* with read_c_str
MaxStrLen == 3
StrBytes == {0, 72, 195, 169, 255}

ByteSeqs(n) == UNION {[1..k -> StrBytes] : k \in 0..n}
Strs == {s \in ByteSeqs(MaxStrLen) : utf8_valid(s)}
StrTails == {<<>>, <<72, 0>>, <<255>>}

InitStr ==
    /\ InitCtx
    /\ reader = NoReader
    /\ rhist = NoReads
    /\ al = NoAlign
    /\ \/ \E s \in Strs, at \in 0..1, tail \in StrTails :
            fx = [op |-> "str", s |-> s, at |-> at, tail |-> tail]
       \/ \E bytes \in ByteSeqs(MaxStrLen + 1), at \in 0..1 :
            fx = [op |-> "stream", bytes |-> bytes, at |-> at]

\* write_c_str on a writer at position at, then read_c_str from position
\* at on a reader over what was written and the bytes that follow it
WriteReadCStr ==
    /\ fx.op = "str"
    /\ LET w0 == write_all(NewWriter, [i \in 1..fx.at |-> 7])
           w == write_c_str(w0, fx.s)
           c == [inner |-> w.inner \o fx.tail, pos |-> fx.at]
       IN  fx' = [op |-> "str_read", s |-> fx.s, at |-> fx.at, tail |-> fx.tail,
                  written |-> w, read |-> read_c_str(c)]
    /\ UNCHANGED <<default_heap, heaps, inner, calls, pc, result, hist, last,
                   reader, rhist, al>>

\* read_c_str on a reader over the bytes, from position at
ReadCStr ==
    /\ fx.op = "stream"
    /\ fx' = [op |-> "stream_read", bytes |-> fx.bytes, at |-> fx.at,
              read |-> read_c_str([inner |-> fx.bytes, pos |-> fx.at])]
    /\ UNCHANGED <<default_heap, heaps, inner, calls, pc, result, hist, last,
                   reader, rhist, al>>

NextStr == WriteReadCStr \/ ReadCStr
SpecStr == InitStr /\ [][NextStr]_vars

\* the index of the first zero byte of bytes after position at, 0 if none
first_zero(bytes, at) ==
    LET zs == {i \in (at + 1)..Len(bytes) : bytes[i] = 0}
    IN  IF zs = {} THEN 0 ELSE CHOOSE i \in zs : \A j \in zs : i <= j

has_zero(s) == \E i \in 1..Len(s) : s[i] = 0

\* C28: write_c_str(s) emits the bytes of s and then one zero byte;
\* read_c_str stops at the first zero byte, leaves the position just past
\* it and returns the bytes before it (which are a string when they are
\* UTF-8); so a string without a zero byte that was written with
\* write_c_str reads back as itself, len(s) + 1 bytes consumed.
C28_CStrRoundTrip ==
    /\ fx.op = "str_read" =>
          /\ fx.written.inner = [i \in 1..fx.at |-> 7] \o fx.s \o <<0>>
          /\ position(fx.written) = fx.at + Len(fx.s) + 1
          /\ ~has_zero(fx.s) =>
                /\ fx.read.ok
                /\ fx.read.value = fx.s
                /\ position(fx.read.cursor) = fx.at + Len(fx.s) + 1
    /\ fx.op = "stream_read" =>
          LET z == first_zero(fx.bytes, fx.at)
              before == SubSeq(fx.bytes, fx.at + 1, z - 1)
          IN  z # 0 =>
                /\ position(fx.read.cursor) = z
                /\ utf8_valid(before) => fx.read.ok /\ fx.read.value = before

\* a two-character string, one of them two bytes long, was written at
\* position 1 in front of another terminated string and read back
C28_Witness ==
    /\ fx.op = "str_read"
    /\ fx.s = <<72, 195, 169>>
    /\ fx.at = 1
    /\ fx.tail = <<72, 0>>
    /\ fx.read.ok
    /\ fx.read.value = fx.s

\* ------------------------------------------------------------------ C27
\* main: the sample and its like are parsed as Npc, written with to_writer
\* and to_writer_post, and assembled

\* main::BYTES
BYTES ==
    <<32, 0, 0, 0,
      0, 0, 128, 63, 0, 0, 0, 64, 0, 0, 0, 63,
      1, 0, 0, 0,
      3, 0, 0, 0, 20, 0, 0, 0,
      28, 0, 0, 0,
      72, 101, 108, 108, 111, 32, 87, 111, 114, 108, 100, 0,
      1, 0, 0, 0, 4, 0, 0, 0, 8, 0, 0, 0,
      24, 0, 0, 0,
      1, 0, 0, 0>>

\* BYTES with another first letter of the name, is_visible, first item id
\* and child id
SampleWith(letter, is_visible, item, id) ==
    [i \in 1..64 |-> IF i = 33 THEN letter
                     ELSE IF i = 17 THEN is_visible
                     ELSE IF i = 45 THEN item
                     ELSE IF i = 57 THEN id
                     ELSE BYTES[i]]

Samples ==
    {SampleWith(l, v, i, d) : l \in {72, 74}, v \in {0, 1}, i \in {1, 255},
                              d \in {24, 0}}

InitNpc ==
    /\ InitCtx
    /\ reader = NoReader
    /\ rhist = NoReads
    /\ al = NoAlign
    /\ \E bytes \in Samples, build \in Builds :
          fx = [op |-> "sample", bytes |-> bytes, build |-> build]

\* Npc::from_reader on a Cursor over the bytes
NpcFromReader ==
    /\ fx.op = "sample"
    /\ LET r == Npc_from_reader([inner |-> fx.bytes, pos |-> 0], fx.build)
       IN  fx' = [op |-> IF r.ok THEN "parsed" ELSE "failed", bytes |-> fx.bytes,
                  build |-> fx.build, read |-> r]
    /\ UNCHANGED <<default_heap, heaps, inner, calls, pc, result, hist, last,
                   reader, rhist, al>>

\* npc.to_writer on the new context
NpcToWriter ==
    /\ fx.op = "parsed"
    /\ default_heap' = Npc_to_writer(default_heap, fx.read.value)
    /\ fx' = [fx EXCEPT !.op = "written"]
    /\ UNCHANGED <<heaps, inner, calls, pc, result, hist, last, reader, rhist, al>>

\* npc.to_writer_post on the context
NpcToWriterPost ==
    /\ fx.op = "written"
    /\ default_heap' = Npc_to_writer_post(default_heap, fx.read.value)
    /\ fx' = [fx EXCEPT !.op = "posted"]
    /\ UNCHANGED <<heaps, inner, calls, pc, result, hist, last, reader, rhist, al>>

\* ctx.to_buffer
NpcToBuffer ==
    /\ fx.op = "posted"
    /\ pc = "open"
    /\ result' = to_buffer(Ctx)
    /\ pc' = "done"
    /\ UNCHANGED <<default_heap, heaps, inner, calls, hist, last, reader, rhist,
                   al, fx>>

NextNpc == NpcFromReader \/ NpcToWriter \/ NpcToWriterPost \/ NpcToBuffer
SpecNpc == InitNpc /\ [][NextNpc]_vars

\* C27: the 64 bytes of the sample, parsed as Npc and written back with
\* to_writer, to_writer_post and to_buffer, come out as the same 64 bytes.
C27_SampleRoundTrip ==
    (pc = "done" /\ fx.op = "posted" /\ fx.bytes = BYTES) =>
        result.out = BYTES

\* ------------------------------------------------------------------ C31
\* words of every BoolSize read as booleans, and booleans written and read
\* back by the default reader
BoolBytes == {0, 1, 255}
BoolWords == UNION {[1..k -> BoolBytes] : k \in {1, 2, 4}} \cup [1..8 -> {0, 1}]

InitBool ==
    /\ InitCtx
    /\ reader = NoReader
    /\ rhist = NoReads
    /\ al = NoAlign
    /\ \/ \E args \in BoolSizes, e \in Endiannesses :
            \E word \in {w \in BoolWords : Len(w) = bool_byte_size(args)} :
                fx = [op |-> "word", word |-> word, args |-> args,
                      endianness |-> e]
       \/ \E value \in BOOLEAN, e \in Endiannesses, at \in 0..1,
             tail \in {<<>>, <<255>>} :
            fx = [op |-> "bool", value |-> value, endianness |-> e, at |-> at,
                  tail |-> tail]

\* bool::from_reader_args on a reader over the word
ReadBoolArgs ==
    /\ fx.op = "word"
    /\ fx' = [op |-> "word_read", word |-> fx.word, args |-> fx.args,
              endianness |-> fx.endianness,
              read |-> bool_from_reader_args([inner |-> fx.word, pos |-> 0],
                                             fx.endianness, fx.args)]
    /\ UNCHANGED <<default_heap, heaps, inner, calls, pc, result, hist, last,
                   reader, rhist, al>>

\* bool::to_writer_simple on a writer at position at, then bool::from_reader
\* from position at on a reader over what was written and what follows it
WriteReadBool ==
    /\ fx.op = "bool"
    /\ LET w0 == write_all(NewWriter, [i \in 1..fx.at |-> 7])
           w == bool_to_writer_simple(w0, fx.value, fx.endianness)
           c == [inner |-> w.inner \o fx.tail, pos |-> fx.at]
       IN  fx' = [op |-> "bool_read", value |-> fx.value,
                  endianness |-> fx.endianness, at |-> fx.at, tail |-> fx.tail,
                  written |-> w, read |-> bool_from_reader(c, fx.endianness)]
    /\ UNCHANGED <<default_heap, heaps, inner, calls, pc, result, hist, last,
                   reader, rhist, al>>

NextBool == ReadBoolArgs \/ WriteReadBool
SpecBool == InitBool /\ [][NextBool]_vars

\* C31: a word of 1, 2, 4 or 8 bytes reads as false exactly when every byte
\* of it is zero, the whole word consumed; a boolean that was written reads
\* back through the default reader as the same value, the reader advanced by
\* exactly the bytes that were written.
C31_BoolCodec ==
    /\ fx.op = "word_read" =>
          /\ fx.read.ok
          /\ fx.read.value = (\E i \in 1..Len(fx.word) : fx.word[i] # 0)
          /\ position(fx.read.cursor) = Len(fx.word)
          /\ Len(fx.word) \in {1, 2, 4, 8}
    /\ fx.op = "bool_read" =>
          /\ fx.read.ok
          /\ fx.read.value = fx.value
          /\ position(fx.read.cursor) = position(fx.written)
          /\ Len(fx.written.inner) = position(fx.written)

\* a two-byte word with one zero byte and one byte other than 1 was read as
\* true
C31_Witness ==
    /\ fx.op = "word_read"
    /\ fx.args = "U16"
    /\ fx.word = <<255, 0>>
    /\ fx.read.value = TRUE

\* ------------------------------------------------------------------ C32
\* the number of bytes in all blocks of all heaps that are assembled
total_bytes == heaps_before(AllCats, 1 + (CHOOSE c \in AllCats : \A d \in AllCats : d <= c))

\* output offset q lies in the placeholder of an applied relocation
in_applied_placeholder(q) ==
    \E i \in 1..Len(result.applied) :
        q >= result.applied[i][1] /\ q < result.applied[i][1] + BYTE_SIZE

\* the bytes of the output are the bytes of the blocks, the placeholders of
\* applied relocations aside, and the output is as long as the blocks are
frame_of_assembly ==
    /\ Len(result.out) = total_bytes
    /\ \A c \in final_cats :
         \A b \in 1..Len(final_heap(c).blocks) :
           \A off \in 1..Len(final_heap(c).blocks[b].writer.inner) :
             LET q == abs_offset(c, b - 1, off - 1)
             IN  ~in_applied_placeholder(q) =>
                    result.out[q + 1] = final_heap(c).blocks[b].writer.inner[off]

\* every call of apply_reference was made at the placeholder of a relocation
\* that was written, with the absolute offset of r's token
applied_at_targets(relocs) ==
    \A i \in 1..Len(result.applied) :
        \A r \in relocs :
            result.applied[i][1] = abs_offset(r.cat, r.blk, r.pos) =>
                result.applied[i][2] =
                    abs_offset(r.m.cat, r.m.tok.block_id, r.m.tok.offset)

\* C32: every apply_reference call of assembly is made at the placeholder of
\* a relocation with the start of the token's block plus the token's offset,
\* the output is as long as all blocks of all heaps together, and every
\* byte of it outside the placeholders of applied relocations is the byte of
\* its block.
C32_AssemblyFrame ==
    pc = "done" =>
        /\ applied_at_targets(hist.relocs)
        /\ \A i \in 1..Len(result.applied) :
             \E r \in hist.relocs :
                 result.applied[i][1] = abs_offset(r.cat, r.blk, r.pos)
        /\ frame_of_assembly

\* ------------------------------------------------------------------ C33
\* the relocations the assembled heaps hold: the i-th relocation of block
\* blk of the heap of category cat, in the order write_token pushed them
reloc_sites ==
    UNION {UNION {{[cat |-> c, blk |-> b, idx |-> k] :
                      k \in 1..Len(final_heap(c).blocks[b + 1].relocations)} :
                  b \in 0..(Len(final_heap(c).blocks) - 1)} :
           c \in final_cats}

site_offset(s) ==
    abs_offset(s.cat, s.blk, final_heap(s.cat).blocks[s.blk + 1].relocations[s.idx][1])

site_token(s) == final_heap(s.cat).blocks[s.blk + 1].relocations[s.idx][2]

\* the relocation of s is inserted into the pending list before that of t
inserted_before(s, t) ==
    s.blk < t.blk \/ (s.blk = t.blk /\ s.idx < t.idx)

\* C33: of two relocations of a heap that assembly applied, the one for the
\* block emitted first is applied first, and of two for the same block the
\* one inserted first into the pending list: the one of the earlier source
\* block, or the one write_token pushed first in the same source block.
C33_ApplicationOrder ==
    pc = "done" =>
        \A i, j \in 1..Len(result.applied) :
            \A s, t \in reloc_sites :
                (/\ i < j
                 /\ site_offset(s) = result.applied[i][1]
                 /\ site_offset(t) = result.applied[j][1]
                 /\ s.cat = t.cat) =>
                    \/ site_token(s).block_id < site_token(t).block_id
                    \/ /\ site_token(s).block_id = site_token(t).block_id
                       /\ inserted_before(s, t)

\* relocations written in two source blocks were applied for one target
\* block, the one of the earlier source block having stayed pending while
\* the later source block was emitted
C33_Witness ==
    /\ pc = "done"
    /\ \E s, t \in reloc_sites :
          /\ s.cat = t.cat
          /\ s.blk < t.blk
          /\ site_token(s).block_id = site_token(t).block_id
          /\ \E i, j \in 1..Len(result.applied) :
                /\ result.applied[i][1] = site_offset(s)
                /\ result.applied[j][1] = site_offset(t)

\* ------------------------------------------------------------------ C34
\* A client writes bytes and sequences of u32 with write_slice_of, at the
\* top level and inside the callbacks of allocations, and assembles.
MaxSliceOps == 4
MaxSliceLen == 2
SliceValues == UNION {[1..n -> {<<0, 0, 0, 1>>, <<0, 0, 1, 255>>}] : n \in 0..MaxSliceLen}

InitSlice ==
    /\ InitCtx
    /\ reader = NoReader
    /\ rhist = NoReads
    /\ al = NoAlign
    /\ fx = [op |-> "slices", slices |-> <<>>]

\* domain.write_slice_of(ctx, values, |domain, ctx, value| value.to_writer(ctx, domain))
WriteSliceOf(values) ==
    /\ pc = "open"
    /\ hist.ops < MaxSliceOps
    /\ LET h == heap_at(Ctx, deref_mut(Ctx, Depth))
       IN  fx' = [fx EXCEPT !.slices =
                     Append(@, [cat |-> own_category(Ctx, Depth),
                                blk |-> h.current_block,
                                pos |-> position(cur_writer(h)),
                                values |-> values])]
    /\ SetCtx(write_slice_of(Ctx, values))
    /\ hist' = [hist EXCEPT !.ops = @ + 1,
                            !.deep[DefaultCat] = Max(@, nesting(Ctx, DefaultCat) + 1)]
    /\ last' = [op |-> "write_slice_of"]
    /\ UNCHANGED <<calls, pc, result, reader, rhist, al>>

NextSlice ==
    \/ \E v \in DataBytes : Write(v, MaxSliceOps)
    \/ \E category \in OptCats : AllocateNextBlock(category, MaxSliceOps)
    \/ CallbackOk
    \/ \E values \in SliceValues : WriteSliceOf(values)
    \/ ToBuffer

SpecSlice == InitSlice /\ [][NextSlice]_vars

\* read_vec on a reader over the assembled output, at the position where
\* write_slice_of s wrote the length
read_back(s, build) ==
    read_vec([inner |-> result.out, pos |-> abs_offset(s.cat, s.blk, s.pos)], build)

\* C34: after assembly, where write_slice_of wrote a sequence there stand
\* its length as a 32-bit little-endian number and a pointer, and read_vec
\* at that position returns the elements that were written, in order,
\* whatever the length, leaving the reader behind the pointer.
C34_SliceRoundTrip ==
    (fx.op = "slices" /\ pc = "done") =>
        \A i \in 1..Len(fx.slices) :
            LET s == fx.slices[i]
                p == abs_offset(s.cat, s.blk, s.pos)
            IN  /\ SubSeq(result.out, p + 1, p + 4) = to_le_bytes(Len(s.values))
                /\ \A build \in Builds :
                      /\ read_back(s, build).ok
                      /\ read_back(s, build).value = s.values
                      /\ position(read_back(s, build).cursor) = p + 8

\* ------------------------------------------------------------------ C35
\* read_c_str and read_str(size) run on finite streams, iteration by
\* iteration
MaxStreamLen == 4
LoopBytes == {0, 72, 255}
Streams == UNION {[1..k -> LoopBytes] : k \in 0..MaxStreamLen}

InitLoop ==
    /\ InitCtx
    /\ reader = NoReader
    /\ rhist = NoReads
    /\ al = NoAlign
    /\ \E input \in Streams, at \in 0..1 :
          \/ fx = [op |-> "loop", input |-> input, at |-> at, size |-> 0,
                   s |-> [fn |-> "read_c_str", cursor |-> [inner |-> input, pos |-> at],
                          bytes |-> <<>>, left |-> 0, out |-> [kind |-> "running"]]]
          \/ \E size \in 0..(MaxStreamLen + 1) :
                fx = [op |-> "loop", input |-> input, at |-> at, size |-> size,
                      s |-> [fn |-> "read_str", cursor |-> [inner |-> input, pos |-> at],
                             bytes |-> <<>>, left |-> size,
                             out |-> [kind |-> "running"]]]

ReadCStrStep ==
    /\ fx.op = "loop"
    /\ fx.s.fn = "read_c_str"
    /\ fx.s.out.kind = "running"
    /\ fx' = [fx EXCEPT !.s = read_c_str_step(@)]
    /\ UNCHANGED <<default_heap, heaps, inner, calls, pc, result, hist, last,
                   reader, rhist, al>>

ReadStrStep ==
    /\ fx.op = "loop"
    /\ fx.s.fn = "read_str"
    /\ fx.s.out.kind = "running"
    /\ fx' = [fx EXCEPT !.s = read_str_step(@)]
    /\ UNCHANGED <<default_heap, heaps, inner, calls, pc, result, hist, last,
                   reader, rhist, al>>

NextLoop == ReadCStrStep \/ ReadStrStep
\* a running function goes on running: its next iteration is taken
SpecLoop == InitLoop /\ [][NextLoop]_vars /\ WF_vars(NextLoop)

\* what a read that has returned has returned: an I/O error when the
\* stream ended before the zero byte, or before size bytes, and otherwise
\* the whole string, or the error of from_utf8 on its bytes
LoopReturnedRight ==
    (fx.op = "loop" /\ fx.s.out.kind # "running") =>
        LET z == first_zero(fx.input, fx.at)
            whole == IF fx.s.fn = "read_c_str"
                     THEN SubSeq(fx.input, fx.at + 1, z - 1)
                     ELSE SubSeq(fx.input, fx.at + 1, fx.at + fx.size)
            short == IF fx.s.fn = "read_c_str" THEN z = 0
                     ELSE fx.size > 0 /\ fx.at + fx.size > Len(fx.input)
        IN  /\ short <=> fx.s.out.kind = "io"
            /\ fx.s.out.kind = "ok" => fx.s.out.value = whole
            /\ (~short /\ utf8_valid(whole)) => fx.s.out.kind = "ok"

\* C35: on a finite stream read_c_str and read_str(size) return; when the
\* stream ends before the zero byte, or before size bytes, what they return
\* is an I/O error, never a shorter string.
C35_ReadsTerminate == []LoopReturnedRight /\ <>(fx.s.out.kind # "running")

\* read_c_str ran through three bytes of a stream without a zero byte and
\* returned the I/O error
C35_Witness ==
    /\ fx.op = "loop"
    /\ fx.s.fn = "read_c_str"
    /\ fx.s.out.kind = "io"
    /\ fx.s.bytes = <<72, 72, 72>>
    /\ fx.at = 1

\* ------------------------------------------------------------------ C36
\* the allocations of category c whose tokens were returned for block b,
\* and the end of the bytes of one
siblings(c, b) ==
    {m \in hist.minted : m.kind = "alloc" /\ m.cat = c /\ m.tok.block_id = b}

content_end(m) == m.tok.offset + Len(m.content)

\* the caller of an allocation whose callback failed handles the error and
\* goes on with the context, the borrow of the inner context having ended
HandleErr ==
    /\ pc = "failed"
    /\ pc' = "open"
    /\ last' = [op |-> "handled"]
    /\ UNCHANGED <<default_heap, heaps, inner, calls, result, hist, reader, rhist,
                   al, fx>>

\* the context protocol of a client that handles the errors of callbacks
NextHandled ==
    \/ \E v \in DataBytes : Write(v, MaxOps)
    \/ \E category \in OptCats : AllocateNextBlock(category, MaxOps)
    \/ CallbackOk
    \/ CallbackErr
    \/ HandleErr

SpecHandled == Init /\ [][NextHandled]_vars

\* C36: the token of every allocation whose callback runs names the block
\* after the one its heap was parked at, which is the block numbered by the
\* allocation's nesting depth in that heap; while no callback has failed a
\* heap is parked at the block numbered by the nesting depth it is at; the
\* contents of the allocations that were made for one block stand in that
\* block one after the other in call order; and a heap has one block more
\* than the deepest nesting ever reached in it.
C36_BlockIsNestingDepth ==
    /\ \A k \in 1..Depth :
          /\ calls[k].new_block_token.block_id = calls[k].prev_current_block + 1
          /\ calls[k].new_block_token.block_id =
                 Cardinality({j \in 1..k :
                     inner[j].default_category = inner[k].default_category})
    /\ \A c \in AllCats :
          /\ pc = "open" => heap_of(Ctx, c).current_block = nesting(Ctx, c)
          /\ Len(heap_of(Ctx, c).blocks) = 1 + hist.deep[c]
          /\ \A b \in 1..(Len(heap_of(Ctx, c).blocks) - 1) :
                \A m, n \in siblings(c, b) :
                    /\ SubSeq(block_bytes(heap_of(Ctx, c), b),
                              m.tok.offset + 1, content_end(m)) = m.content
                    /\ \/ content_end(m) <= n.tok.offset
                       \/ content_end(n) <= m.tok.offset
                       \/ m = n

\* ------------------------------------------------------------------ C37
\* C37: equality and ordering of tokens agree: a.cmp(b) is Equal exactly
\* when a == b, tokens that differ only in their heap_id included.
C37_EqAgreesWithOrd ==
    fx.op = "cmp" => (fx.ab = "Equal" <=> fx.eq)
\* ------------------------------------------------------------------ C38
\* C38: every relocation that assembly applies is a forward reference: the
\* target is at or after the end of the placeholder, so the subtraction of
\* write_relative_ptr does not wrap and the word stored in the placeholder
\* is the distance, which is positive.
C38_ForwardReferences ==
    pc = "done" =>
        \A i \in 1..Len(result.applied) :
            LET offset == result.applied[i][1]
                target == result.applied[i][2]
            IN  /\ target >= offset + BYTE_SIZE
                /\ u32_sub(pointer_from(target), to_le_bytes(offset))
                       = to_le_bytes(target - offset)
                /\ SubSeq(result.out, offset + 1, offset + BYTE_SIZE)
                       = to_le_bytes(target - offset)
                /\ from_le_bytes(result.out, offset) > 0

\* assembly applied a relocation whose target is the byte after its
\* placeholder, and one whose target is further on
C38_Witness ==
    /\ pc = "done"
    /\ \E i, j \in 1..Len(result.applied) :
          /\ result.applied[i][2] = result.applied[i][1] + BYTE_SIZE
          /\ result.applied[j][2] > result.applied[j][1] + BYTE_SIZE

\* ------------------------------------------------------------------ C39
\* C39: a category of None is the default category, also when the call is
\* made on an inner context whose own heap is of another category: the new
\* context holds the heap of the default category with the block the token
\* names put current in it, the blocks it had are as they were, and the heap
\* of the context the call was made on is as it was before the call.
C39_NoneIsDefaultCategory ==
    (last.op = "enter" /\ last.category = <<>>) =>
        LET k == Depth
            h == inner[k].default_heap
            old == last.before
            token == calls[k].new_block_token
        IN  /\ last.cat = DefaultCat
            /\ inner[k].default_category = DefaultCat
            /\ token.block_id = h.current_block
            /\ token.block_id = old.current_block + 1
            /\ Len(h.blocks) = Max(Len(old.blocks), token.block_id + 1)
            /\ \A b \in 1..Len(old.blocks) :
                   \/ h.blocks[b] = old.blocks[b]
                   \/ /\ last.alignment > 0
                      /\ b = token.block_id + 1
                      /\ h.blocks[b].relocations = old.blocks[b].relocations
                      /\ SubSeq(h.blocks[b].writer.inner, 1, Len(old.blocks[b].writer.inner))
                             = old.blocks[b].writer.inner
            /\ (k >= 2 /\ inner[k - 1].default_category # DefaultCat) =>
                   inner[k - 1].default_heap = last.own

\* None was passed on an inner context whose own heap is of another
\* category, with bytes in that heap's current block and in the default heap
C39_Witness ==
    /\ last.op = "enter"
    /\ last.category = <<>>
    /\ Depth >= 2
    /\ inner[Depth - 1].default_category # DefaultCat
    /\ cur_writer(inner[Depth - 1].default_heap).inner # <<>>
    /\ last.before.blocks[1].writer.inner # <<>>

\* ------------------------------------------------------------------ C40
\* the token minted on entry of an aligned allocation is at a multiple of
\* the alignment asked for
minted_aligned ==
    (last.op = "enter" /\ last.alignment > 0) =>
        calls[Depth].new_block_token.offset % last.alignment = 0

\* a step leaves the tokens of the running allocations as they were minted,
\* and an allocation that returns Ok returns the token it minted on entry
returns_minted ==
    /\ \A k \in 1..Len(calls) : k <= Len(calls') => calls'[k] = calls[k]
    /\ (Len(calls') < Len(calls) /\ last'.op = "callback_ok") =>
           last'.token = calls[Len(calls)].new_block_token

\* C40: the token that allocate_next_block_aligned(category, A, callback)
\* returns for A > 0 has a local offset that is a multiple of A, when the
\* block was appended (offset 0) and when an existing block was re-entered
\* and padded.
C40_AlignedTokenOffset == []minted_aligned /\ [][returns_minted]_vars

\* an aligned allocation that re-entered a block of one byte has returned:
\* its token is at offset 2, after the byte and one byte of padding
C40_Witness ==
    /\ last.op = "callback_ok"
    /\ last.token.offset = 2
    /\ LET bytes == block_bytes(heap_of(Ctx, last.cat), last.token.block_id)
       IN  /\ Len(bytes) >= 2
           /\ bytes[1] # 0
           /\ bytes[2] = 0

====
